---------------------------- MODULE Spec2Model ----------------------------
(***************************************************************************)
(* A model of parts of the Ren-C interpreter and its TLS 1.0 scheme:       *)
(*   - the TLS protocol state handling of src/mezz/prot-tls.r,             *)
(*   - the trap/unwind machinery of src/core/c-error.c,                    *)
(*   - the argument fulfillment loop of Do_Core in src/core/c-eval.c.      *)
(* Each part has its own specification (Init/Next pair) over the shared    *)
(* variables; a specification leaves the variables of the other parts at   *)
(* their initial values.                                                   *)
(***************************************************************************)
EXTENDS Integers, Sequences, FiniteSets, TLC

VARIABLES
    ctx,    \* the TLS session object (port/state of the tls scheme)
    call,   \* the outcome of the last TLS operation (what its caller observes)
    net,    \* the transport below the session and the event queue above it
    rt,     \* the interpreter's unwindable state (stacks, guards, manuals, traps)
    f       \* the evaluator frame of the function call being fulfilled

vars == <<ctx, call, net, rt, f>>

(***************************************************************************)
(* Values shared by the parts.                                             *)
(***************************************************************************)

\* BLANK! (`_`): the value of an unset field and of a failed FIND or SELECT.
blank == "_"

Min(a, b) == IF a < b THEN a ELSE b

Last(s) == s[Len(s)]

Front(s) == SubSeq(s, 1, Len(s) - 1)

\* The elements of a sequence.
Range(s) == {s[i] : i \in 1..Len(s)}

(***************************************************************************)
(* TLS: protocol state handling.                                           *)
(***************************************************************************)

\* The states named by the two transition tables and by the commands of
\* do-commands: TAG!s, and ISSUE!s for the (potentially) terminal states.
States ==
    { "<client-hello>", "<server-hello>", "<certificate>",
      "<server-key-exchange>", "#server-hello-done", "<client-key-exchange>",
      "<change-cipher-spec>", "<finished>", "#encrypted-handshake",
      "#application", "#alert", "<close-notify>" }

\* ISSUE? of a mode.
issue(m) == m \in {"#server-hello-done", "#encrypted-handshake", "#application",
                   "#alert", "#handshake", "#hello-request"}

\* SELECT on a block of key/value pairs: the value after the first key equal
\* to `key`, blank when there is none.
select(block, key) ==
    IF \E i \in 1..Len(block) : block[i][1] = key
    THEN block[CHOOSE i \in 1..Len(block) :
                 /\ block[i][1] = key
                 /\ \A j \in 1..(i - 1) : block[j][1] # key][2]
    ELSE blank

\* FIND on a block: true when `value` is an element; a blank series finds nothing.
find(block, value) ==
    /\ block # blank
    /\ \E i \in 1..Len(block) : block[i] = value

\* A mutant of read_transitions: a further alert is legal in #alert.
read_transitions_alert ==
    << <<"<client-hello>", <<"<server-hello>">> >>,
       <<"<server-hello>", <<"<certificate>">> >>,
       <<"<certificate>", <<"#server-hello-done", "<server-key-exchange>">> >>,
       <<"<server-key-exchange>", <<"#server-hello-done">> >>,
       <<"<finished>", <<"<change-cipher-spec>", "#alert">> >>,
       <<"<change-cipher-spec>", <<"#encrypted-handshake">> >>,
       <<"#encrypted-handshake", <<"#application">> >>,
       <<"#application", <<"#application", "#alert">> >>,
       <<"#alert", <<"#alert">> >>,
       <<"<close-notify>", <<"#alert">> >> >>

read_transitions ==
    << <<"<client-hello>", <<"<server-hello>">> >>,
       <<"<server-hello>", <<"<certificate>">> >>,
       <<"<certificate>", <<"#server-hello-done", "<server-key-exchange>">> >>,
       <<"<server-key-exchange>", <<"#server-hello-done">> >>,
       <<"<finished>", <<"<change-cipher-spec>", "#alert">> >>,
       <<"<change-cipher-spec>", <<"#encrypted-handshake">> >>,
       <<"#encrypted-handshake", <<"#application">> >>,
       <<"#application", <<"#application", "#alert">> >>,
       <<"#alert", << >> >>,
       <<"<close-notify>", <<"#alert">> >> >>

write_transitions ==
    << <<"#server-hello-done", <<"<client-key-exchange>">> >>,
       <<"<client-key-exchange>", <<"<change-cipher-spec>">> >>,
       <<"<change-cipher-spec>", <<"<finished>">> >>,
       <<"#encrypted-handshake", <<"#application">> >>,
       <<"#application", <<"#application", "#alert">> >>,
       <<"#alert", <<"<close-notify>">> >>,
       <<"<close-notify>", << >> >> >>

\* A mutant of update_state: the new state is stored before it is checked.
update_state_unchecked(c, new, transitions) ==
    [ok |-> c.mode = blank \/ find(select(transitions, c.mode), new),
     ctx |-> [c EXCEPT !.mode = new]]

\* update-state: fails, leaving ctx/mode alone, when the current mode is not
\* blank and `new` is not among the legal next states of the current mode
\* (a mode the table has no entry for has no legal next state); else sets
\* ctx/mode.  The result is [ok, ctx]: whether the call returned, and the
\* session after it.
update_state(c, new, transitions) ==
    LET old == c.mode
        legal == select(transitions, old)
    IN  IF old # blank /\ ~find(legal, new)
        THEN [ok |-> FALSE, ctx |-> c]
        ELSE [ok |-> TRUE, ctx |-> [c EXCEPT !.mode = new]]

update_read_state(c, new) == update_state(c, new, read_transitions)

update_write_state(c, new) == update_state(c, new, write_transitions)


\* The session object made by the scheme's `open` and reset by tls-init.
InitCtx ==
    [mode |-> blank, seq_num_r |-> 0, seq_num_w |-> 0, encrypted |-> FALSE,
     msg |-> << >>, data_buffer |-> << >>, resp |-> << >>,
     handshake_messages |-> << >>, verify |-> << >>]

NoCall == [op |-> "none"]

InitNet == [pc |-> "closed"]

InitRt == [pc |-> "off"]

InitFrame == [pc |-> "off"]

\* A call of update-read-state with an arbitrary requested state.
UpdateReadState(new) ==
    LET r == update_read_state(ctx, new)
    IN  /\ ctx' = r.ctx
        /\ call' = [op |-> "update-state", direction |-> "read",
                    old |-> ctx.mode, new |-> new, ok |-> r.ok]
        /\ UNCHANGED <<net, rt, f>>

\* A call of update-write-state with an arbitrary requested state.
UpdateWriteState(new) ==
    LET r == update_write_state(ctx, new)
    IN  /\ ctx' = r.ctx
        /\ call' = [op |-> "update-state", direction |-> "write",
                    old |-> ctx.mode, new |-> new, ok |-> r.ok]
        /\ UNCHANGED <<net, rt, f>>

InitState ==
    /\ ctx = InitCtx
    /\ call = NoCall
    /\ net = InitNet
    /\ rt = InitRt
    /\ f = InitFrame

NextState ==
    \/ \E new \in States : UpdateReadState(new)
    \/ \E new \in States : UpdateWriteState(new)

\* The two directional automata driven with every requested state.
SpecState == InitState /\ [][NextState]_vars

(***************************************************************************)
(* C1                                                                      *)
(***************************************************************************)

\* The write direction as section 4.6 of the specification lists it.
SpecWriteListed ==
    { <<"#server-hello-done", "<client-key-exchange>">>,
      <<"<client-key-exchange>", "<change-cipher-spec>">>,
      <<"<change-cipher-spec>", "<finished>">>,
      <<"<finished>", "#encrypted-handshake">>,
      <<"#encrypted-handshake", "#application">>,
      <<"#application", "#application">>,
      <<"#application", "#alert">>,
      <<"#alert", "<close-notify>">> }

\* The write direction without the pair finished -> encrypted-handshake.
WriteListed == SpecWriteListed \ { <<"<finished>", "#encrypted-handshake">> }

ReadListed ==
    { <<"<client-hello>", "<server-hello>">>,
      <<"<server-hello>", "<certificate>">>,
      <<"<certificate>", "#server-hello-done">>,
      <<"<certificate>", "<server-key-exchange>">>,
      <<"<server-key-exchange>", "#server-hello-done">>,
      <<"<finished>", "<change-cipher-spec>">>,
      <<"<finished>", "#alert">>,
      <<"<change-cipher-spec>", "#encrypted-handshake">>,
      <<"#encrypted-handshake", "#application">>,
      <<"#application", "#application">>,
      <<"#application", "#alert">>,
      <<"<close-notify>", "#alert">> }

\* What the claim says of the last update-state call, given the pairs listed
\* for each direction.
StateCallAgrees(readListed, writeListed) ==
    LET listed == IF call.direction = "read" THEN readListed ELSE writeListed
    IN  IF <<call.old, call.new>> \in listed
        THEN call.ok /\ ctx.mode = call.new
        ELSE ~call.ok /\ ctx.mode = call.old

\* C1 as stated, with the write direction of section 4.6: for every pair of
\* states, a call with a listed pair succeeds and sets ctx/mode, and a call
\* with an unlisted pair fails and leaves ctx/mode alone.
C1_Original ==
    (call.op = "update-state" /\ call.old \in States)
        => StateCallAgrees(ReadListed, SpecWriteListed)

\* C1 amended: the same, where the write direction has no transition out of
\* <finished> (finished -> encrypted-handshake is not a write transition);
\* and a call made while ctx/mode is blank always succeeds.
C1_StateTransitions ==
    call.op = "update-state" =>
        IF call.old = blank
        THEN call.ok /\ ctx.mode = call.new
        ELSE StateCallAgrees(ReadListed, WriteListed)

\* A write call finished -> encrypted-handshake has been made (and refused),
\* and so has a listed read call.
C1_Witness ==
    /\ call.op = "update-state"
    /\ call.direction = "write"
    /\ call.old = "<finished>"
    /\ call.new = "#encrypted-handshake"
    /\ ~call.ok
    /\ ctx.mode = "<finished>"


(***************************************************************************)
(* Trap scopes and error unwinding (c-error.c).                            *)
(*                                                                         *)
(* rt holds the quantities a trap scope snapshots: the data stack pointer  *)
(* DSP, the chunk stack depth TG_Top_Chunk, the frame stack depth FS_TOP,  *)
(* the lengths of the two guard lists, of UNI_BUF, MOLD_STACK and          *)
(* BUF_COLLECT, GC_Disabled, and GC_Manuals, the list of the series that   *)
(* are manual (allocated, neither freed nor managed).  rt.states holds the *)
(* live Reb_State structures; Saved_State and last_state are indices into  *)
(* it, 0 for NULL.  rt.ghost records, per live Reb_State, the interpreter  *)
(* state as it was when the scope was established.                         *)
(***************************************************************************)

\* The bound of the trap model: on what the unwindable state holds at a
\* time (trap scopes included), and on the series ever made.
MaxSize == 3

\* Snap_State_Core: the snapshot of the unwindable state (last_state is set
\* by the trap macro that calls it).
Snap_State_Core(r) ==
    [dsp |-> r.DSP,
     top_chunk |-> r.TG_Top_Chunk,
     series_guard_len |-> r.GC_Series_Guard,
     value_guard_len |-> r.GC_Value_Guard,
     frame |-> r.FS_TOP,
     gc_disable |-> r.GC_Disabled,
     manuals_len |-> Len(r.GC_Manuals),
     uni_buf_len |-> r.UNI_BUF,
     mold_loop_tail |-> r.MOLD_STACK,
     error |-> "NULL"]

\* Removal of a series from GC_Manuals, as Free_Series and Manage_Series do
\* it: the last entry takes the place of the removed one and the list
\* shrinks by one.
Untrack_Manual(manuals, s) ==
    LET n == Len(manuals)
        i == CHOOSE k \in 1..n : manuals[k] = s
    IN  IF i = n THEN Front(manuals)
        ELSE [Front(manuals) EXCEPT ![i] = manuals[n]]

\* The loop of Trapped_Helper_Halted that frees the last entry of GC_Manuals
\* until the list has the snapshot's length.
RECURSIVE Free_Manuals_To(_, _)
Free_Manuals_To(manuals, len) ==
    IF Len(manuals) = len THEN manuals
    ELSE Free_Manuals_To(Untrack_Manual(manuals, Last(manuals)), len)

\* A mutant of Trapped_Helper_Halted: the data stack is not dropped.
Trapped_Helper_Halted_NoDrop(r, s) ==
    [r EXCEPT !.pc = "trapped",
              !.TG_Top_Chunk = s.top_chunk,
              !.BUF_COLLECT = 0,
              !.GC_Manuals = Free_Manuals_To(r.GC_Manuals, s.manuals_len),
              !.GC_Series_Guard = s.series_guard_len,
              !.GC_Value_Guard = s.value_guard_len,
              !.FS_TOP = s.frame,
              !.UNI_BUF = s.uni_buf_len,
              !.MOLD_STACK = s.mold_loop_tail,
              !.GC_Disabled = s.gc_disable,
              !.Saved_State = s.last_state]

\* Trapped_Helper_Halted, run where the trap's setjmp returns after the
\* longjmp of Fail_Core, when GC_Manuals is at least as long as at the
\* snapshot: restores each snapshotted quantity and makes the enclosing
\* scope current.
Trapped_Helper_Halted(r, s) ==
    [r EXCEPT !.pc = "trapped",
              !.DSP = s.dsp,
              !.TG_Top_Chunk = s.top_chunk,
              !.BUF_COLLECT = 0,
              !.GC_Manuals = Free_Manuals_To(r.GC_Manuals, s.manuals_len),
              !.GC_Series_Guard = s.series_guard_len,
              !.GC_Value_Guard = s.value_guard_len,
              !.FS_TOP = s.frame,
              !.UNI_BUF = s.uni_buf_len,
              !.MOLD_STACK = s.mold_loop_tail,
              !.GC_Disabled = s.gc_disable,
              !.Saved_State = s.last_state]

\* The loop of Fail_Core that drops the frames above the scope's frame, top
\* first: the frames dropped, in the order they are dropped.
RECURSIVE Dropped_Frames(_, _)
Dropped_Frames(top, frame) ==
    IF top = frame \/ top = 0 THEN << >>
    ELSE <<top>> \o Dropped_Frames(top - 1, frame)

\* Fail_Core that goes on to the unwinding where there is no scope to
\* unwind to: every frame is dropped before the runtime stops.
Fail_Core_Dropping(r) ==
    LET frame == IF r.Saved_State = 0 THEN 0
                 ELSE r.states[r.Saved_State].frame
        dropped == Dropped_Frames(r.FS_TOP, frame)
    IN  IF r.Saved_State = 0
          THEN [r EXCEPT !.pc = "panicked",
                         !.FS_TOP = r.FS_TOP - Len(dropped),
                         !.dropped = dropped]
          ELSE [r EXCEPT !.pc = "jumped",
                         !.FS_TOP = r.FS_TOP - Len(dropped),
                         !.dropped = dropped,
                         !.states[r.Saved_State].error = "error"]

\* Fail_Core.  With no trap scope in effect it panics on the error, which
\* does not return.  With one it drops the frames pushed since the snapshot,
\* stores the error in the scope and jumps to it.
Fail_Core(r) ==
    LET unwind(s) ==
            LET dropped == Dropped_Frames(r.FS_TOP, s.frame)
            IN  [r EXCEPT !.pc = "jumped",
                          !.FS_TOP = r.FS_TOP - Len(dropped),
                          !.dropped = dropped,
                          !.states[r.Saved_State].error = "error"]
    IN  IF r.Saved_State = 0
          THEN [r EXCEPT !.pc = "panicked"]
          ELSE unwind(r.states[r.Saved_State])

\* The quantities of the interpreter state that a later unwind is to bring
\* back, read off the interpreter state itself.
Observed(r) ==
    [DSP |-> r.DSP, FS_TOP |-> r.FS_TOP, GC_Series_Guard |-> r.GC_Series_Guard,
     GC_Value_Guard |-> r.GC_Value_Guard, GC_Disabled |-> r.GC_Disabled,
     UNI_BUF |-> r.UNI_BUF, MOLD_STACK |-> r.MOLD_STACK,
     Saved_State |-> r.Saved_State, manuals |-> Range(r.GC_Manuals),
     count |-> Len(r.GC_Manuals)]

\* What the unwindable state holds, for the bound of the model.
Size(r) ==
    r.DSP + r.TG_Top_Chunk + r.FS_TOP + r.GC_Series_Guard + r.GC_Value_Guard
    + r.GC_Disabled + Len(r.GC_Manuals) + r.UNI_BUF + r.MOLD_STACK
    + r.BUF_COLLECT + Len(r.states)

Running == rt.pc = "run" /\ Size(rt) < MaxSize

Step(r) == /\ rt' = r
           /\ UNCHANGED <<ctx, call, net, f>>

\* PUSH_TRAP: snapshots the state and makes the new scope the current one.
PUSH_TRAP ==
    /\ Running
    /\ rt.BUF_COLLECT = 0
    /\ Step([rt EXCEPT
           !.states = Append(@, [last_state |-> rt.Saved_State]
                                 @@ Snap_State_Core(rt)),
           !.Saved_State = Len(rt.states) + 1,
           !.ghost = Append(@, Observed(rt))])

DS_PUSH == Running /\ Step([rt EXCEPT !.DSP = @ + 1])

Push_Chunk == Running /\ Step([rt EXCEPT !.TG_Top_Chunk = @ + 1])

PUSH_CALL == Running /\ Step([rt EXCEPT !.FS_TOP = @ + 1])

PUSH_GUARD_SERIES == Running /\ Step([rt EXCEPT !.GC_Series_Guard = @ + 1])

PUSH_GUARD_VALUE == Running /\ Step([rt EXCEPT !.GC_Value_Guard = @ + 1])

Disable_GC == Running /\ Step([rt EXCEPT !.GC_Disabled = @ + 1])

Enable_GC ==
    /\ rt.pc = "run"
    /\ rt.GC_Disabled > 0
    /\ Step([rt EXCEPT !.GC_Disabled = @ - 1])

Push_Mold ==
    /\ Running
    /\ \/ Step([rt EXCEPT !.UNI_BUF = @ + 1])
       \/ Step([rt EXCEPT !.MOLD_STACK = @ + 1])

Collect_Keys_Start == Running /\ Step([rt EXCEPT !.BUF_COLLECT = @ + 1])

\* Make_Series: a new manual series, tracked at the tail of GC_Manuals.
Make_Series ==
    /\ Running
    /\ rt.nseries < MaxSize
    /\ Step([rt EXCEPT !.nseries = @ + 1,
                       !.GC_Manuals = Append(@, rt.nseries + 1)])

\* Free_Series of any manual series.
Free_Series ==
    /\ rt.pc = "run"
    /\ \E s \in Range(rt.GC_Manuals) :
         Step([rt EXCEPT !.GC_Manuals = Untrack_Manual(@, s)])

\* Manage_Series of any manual series: the collector owns it from now on.
Manage_Series ==
    /\ rt.pc = "run"
    /\ \E s \in Range(rt.GC_Manuals) :
         Step([rt EXCEPT !.GC_Manuals = Untrack_Manual(@, s)])

\* fail (error), with a trap scope in effect or with none.
Fail ==
    /\ rt.pc = "run"
    /\ Step(Fail_Core(rt))

\* The setjmp of the current scope returns: Trapped_Helper_Halted runs.  With
\* fewer manual series than at the snapshot its loop never meets its exit
\* condition: a debug build stops at the assertion, a release build frees
\* every manual series and then reads before the head of GC_Manuals.
Trapped ==
    /\ rt.pc = "jumped"
    /\ LET s == rt.states[rt.Saved_State]
           r == [rt EXCEPT !.caught = [snap |-> rt.ghost[rt.Saved_State],
                                       manuals |-> Range(rt.GC_Manuals)]]
       IN  IF Len(rt.GC_Manuals) >= s.manuals_len
           THEN Step(Trapped_Helper_Halted(r, s))
           ELSE \/ Step([r EXCEPT !.pc = "panic"])
                \/ Step([r EXCEPT !.pc = "panic", !.GC_Manuals = << >>])

\* The code after the trap handles the error; the scope's Reb_State is gone.
Handled ==
    /\ rt.pc = "trapped"
    /\ Step([rt EXCEPT !.pc = "run",
                       !.states = SubSeq(@, 1, rt.Saved_State),
                       !.ghost = SubSeq(@, 1, rt.Saved_State),
                       !.dropped = << >>,
                       !.caught = [snap |-> blank, manuals |-> {}]])

InitTrap ==
    /\ rt = [pc |-> "run", DSP |-> 0, TG_Top_Chunk |-> 0, FS_TOP |-> 0,
             GC_Series_Guard |-> 0, GC_Value_Guard |-> 0, GC_Disabled |-> 0,
             GC_Manuals |-> << >>, UNI_BUF |-> 0, MOLD_STACK |-> 0,
             BUF_COLLECT |-> 0, states |-> << >>, Saved_State |-> 0,
             nseries |-> 0, ghost |-> << >>, dropped |-> << >>,
             caught |-> [snap |-> blank, manuals |-> {}]]
    /\ ctx = InitCtx
    /\ call = NoCall
    /\ net = InitNet
    /\ f = InitFrame

NextTrap ==
    \/ PUSH_TRAP
    \/ DS_PUSH
    \/ Push_Chunk
    \/ PUSH_CALL
    \/ PUSH_GUARD_SERIES
    \/ PUSH_GUARD_VALUE
    \/ Disable_GC
    \/ Enable_GC
    \/ Push_Mold
    \/ Collect_Keys_Start
    \/ Make_Series
    \/ Free_Series
    \/ Manage_Series
    \/ Fail
    \/ Trapped
    \/ Handled

SpecTrap == InitTrap /\ [][NextTrap]_vars

(***************************************************************************)
(* C2, C3                                                                  *)
(***************************************************************************)

\* C2: when Trapped_Helper_Halted has handled an error raised under a trap
\* scope, the data stack depth, the frame stack top, the number of manual
\* series, the two guard list lengths, GC_Disabled and the uni/mold buffer
\* marks are what they were when the scope was established, and the current
\* Saved_State is the scope that enclosed it.
C2_UnwindRestores ==
    rt.pc = "trapped" =>
        LET was == rt.caught.snap
        IN  /\ rt.DSP = was.DSP
            /\ rt.FS_TOP = was.FS_TOP
            /\ Len(rt.GC_Manuals) = was.count
            /\ rt.GC_Series_Guard = was.GC_Series_Guard
            /\ rt.GC_Value_Guard = was.GC_Value_Guard
            /\ rt.GC_Disabled = was.GC_Disabled
            /\ rt.UNI_BUF = was.UNI_BUF
            /\ rt.MOLD_STACK = was.MOLD_STACK
            /\ rt.Saved_State = was.Saved_State

\* An error was caught by a nested scope after a frame pushed under it had
\* been dropped by Fail_Core.
C2_Witness ==
    /\ rt.pc = "trapped"
    /\ rt.Saved_State # 0
    /\ Len(rt.dropped) = 1
    /\ rt.FS_TOP = rt.caught.snap.FS_TOP

\* The series an unwind has freed: manual when the error was raised, and
\* manual no longer.
FreedByUnwind == rt.caught.manuals \ Range(rt.GC_Manuals)

\* C3: an unwind frees exactly the series that were manual when the error was
\* raised and were not manual when the scope was established (so none that
\* was manual at the snapshot), whatever was allocated, freed or managed in
\* between.
C3_UnwindFreesExactly ==
    rt.pc = "trapped" =>
        FreedByUnwind = rt.caught.manuals \ rt.caught.snap.manuals

(***************************************************************************)
(* Function argument fulfillment (c-eval.c, Do_Core).                      *)
(*                                                                         *)
(* f is the frame of one function call made through a path.  f.param is    *)
(* the index of the parameter being visited (f.arg is the slot of the same *)
(* index in f.args), one past the last parameter for END.  f.stack is the  *)
(* data stack above f.dsp_orig: the refinement words of the path, the last *)
(* entry being DS_TOP.  f.value is the call site still to be consumed, one *)
(* entry per expression, each entry the value the expression evaluates to. *)
(* f.refine is BAR, BLANK, VOID or FALSE for the constant cells, or SLOT   *)
(* with the index of the refinement's argument slot.  f.consumed records   *)
(* the parameters that took a call-site expression, in the order they took *)
(* it, with doing_pickups at that moment; f.deferred the refinements left  *)
(* on the stack as pickups; f.path and f.site the call as it was made.     *)
(***************************************************************************)

\* The bound of the argument-fulfillment model: the number of expressions at
\* the call site.
MaxSite == 4

Param(class, sym, types, endable) ==
    [class |-> class, sym |-> sym, types |-> types, endable |-> endable]

ANY_VALUE == {"integer", "text"}

\* The parameter lists of the functions called.  The first is the example of
\* Do_Core's comment, foo: func [a /b c /d e].
Paramlists ==
    << << Param("normal", "a", ANY_VALUE, FALSE),
          Param("refinement", "b", {}, FALSE),
          Param("normal", "c", ANY_VALUE, FALSE),
          Param("refinement", "d", {}, FALSE),
          Param("normal", "e", ANY_VALUE, FALSE) >>,
       << Param("refinement", "b", {}, FALSE),
          Param("normal", "c", {"integer"}, FALSE),
          Param("normal", "d", ANY_VALUE, FALSE),
          Param("refinement", "e", {}, FALSE),
          Param("normal", "g", ANY_VALUE, FALSE),
          Param("local", "l", {}, FALSE) >>,
       << Param("refinement", "b", {}, FALSE),
          Param("normal", "c", ANY_VALUE, FALSE),
          Param("refinement", "d", {}, FALSE),
          Param("normal", "e", ANY_VALUE, FALSE),
          Param("refinement", "f", {}, FALSE),
          Param("normal", "g", ANY_VALUE, FALSE) >>,
       << Param("normal", "a", ANY_VALUE \cup {"void"}, TRUE),
          Param("refinement", "x", {}, FALSE),
          Param("refinement", "b", {}, FALSE),
          Param("normal", "c", ANY_VALUE, TRUE) >> >>

\* The words a path to each function may hold after the function's name;
\* zz is a refinement of none of them.
PathWords ==
    << {"b", "d", "zz"}, {"b", "e", "zz"}, {"b", "d", "f"}, {"x", "b"} >>

\* The values of the call-site expressions, and VAL_TYPE of each.
Values == {"void", "1", "a"}

VAL_TYPE(v) ==
    CASE v = "void" -> "void"
      [] v = "1" -> "integer"
      [] v = "a" -> "text"
      [] OTHER -> "logic"

BAR_VALUE == [kind |-> "BAR", slot |-> 0]
BLANK_VALUE == [kind |-> "BLANK", slot |-> 0]
VOID_CELL == [kind |-> "VOID", slot |-> 0]
FALSE_VALUE == [kind |-> "FALSE", slot |-> 0]
Slot(i) == [kind |-> "SLOT", slot |-> i]

Params(fr) == Paramlists[fr.func]

IS_END_PARAM(fr) == fr.param > Len(Params(fr))

\* IS_CONDITIONAL_FALSE of the cell f->refine points to.
IS_CONDITIONAL_FALSE(fr) ==
    \/ fr.refine.kind \in {"BLANK", "FALSE"}
    \/ fr.refine.kind = "SLOT" /\ fr.args[fr.refine.slot] = "FALSE"

\* fail (...) during fulfillment: the call ends with the error.
Raise(fr, id) == [fr EXCEPT !.pc = "error", !.error = id]

\* continue_arg_loop: the loop's ++f->param, ++f->arg.
Continue(fr) == [fr EXCEPT !.param = @ + 1]

\* The state of the frame when the fulfillment loop is entered for a call of
\* function func through a path naming the words of path, followed by site.
\* The path evaluator leaves the words on the data stack with the first one
\* named on top.
Begin_Call(func, path, site) ==
    [pc |-> "args", func |-> func, param |-> 1,
     args |-> [i \in 1..Len(Paramlists[func]) |-> "END"],
     refine |-> BAR_VALUE,
     stack |-> [i \in 1..Len(path) |->
                   [sym |-> path[Len(path) + 1 - i], pickup |-> 0]],
     value |-> site, doing_pickups |-> FALSE, error |-> blank,
     consumed |-> << >>, deferred |-> {}, path |-> path, site |-> site]

\* A mutant of Refinement_Slot: a refinement found deeper in the stack has
\* its word removed and its arguments consumed as the walk goes on.
Refinement_Slot_NoPickup(fr) ==
    LET sym == Params(fr)[fr.param].sym
        n == Len(fr.stack)
        below == {i \in 1..(n - 1) : fr.stack[i].sym = sym}
        found == CHOOSE i \in below : \A j \in below : j <= i
        unused == Continue([fr EXCEPT !.args[fr.param] = "FALSE",
                                      !.refine = BLANK_VALUE])
    IN  IF fr.doing_pickups THEN [fr EXCEPT !.param = Len(Params(fr)) + 1]
        ELSE IF n = 0 THEN unused
        ELSE IF fr.stack[n].sym = sym
        THEN Continue([fr EXCEPT !.stack = Front(@),
                                 !.args[fr.param] = "TRUE",
                                 !.refine = Slot(fr.param)])
        ELSE IF below # {}
        THEN Continue([fr EXCEPT
                 !.stack = SubSeq(@, 1, found - 1) \o SubSeq(@, found + 1, n),
                 !.args[fr.param] = "TRUE",
                 !.refine = Slot(fr.param)])
        ELSE unused

\* The slot of a refinement parameter.  In the second pass it ends the
\* pickup in progress.  Otherwise: with no word left on the stack the
\* refinement is unused; with its word on top the word is dropped and its
\* arguments are consumed as the walk goes on; with its word deeper in the
\* stack that word is flagged as a pickup holding this position, and the
\* arguments are left for later; else it is unused.
Refinement_Slot(fr) ==
    LET sym == Params(fr)[fr.param].sym
        n == Len(fr.stack)
        below == {i \in 1..(n - 1) : fr.stack[i].sym = sym}
        found == CHOOSE i \in below : \A j \in below : j <= i
        unused == Continue([fr EXCEPT !.args[fr.param] = "FALSE",
                                      !.refine = BLANK_VALUE])
    IN  IF fr.doing_pickups THEN [fr EXCEPT !.param = Len(Params(fr)) + 1]
        ELSE IF n = 0 THEN unused
        ELSE IF fr.stack[n].sym = sym
        THEN Continue([fr EXCEPT !.stack = Front(@),
                                 !.args[fr.param] = "TRUE",
                                 !.refine = Slot(fr.param)])
        ELSE IF below # {}
        THEN Continue([fr EXCEPT !.stack[found].pickup = fr.param,
                                 !.args[fr.param] = "TRUE",
                                 !.refine = VOID_CELL,
                                 !.deferred = @ \cup {fr.param}])
        ELSE unused

\* Type_Check_Arg_For_Param_May_Fail, then continue_arg_loop.
Type_Check_Arg_For_Param_May_Fail(fr) ==
    IF VAL_TYPE(fr.args[fr.param]) \in Params(fr)[fr.param].types
    THEN Continue(fr)
    ELSE Raise(fr, "Arg_Type")

\* A mutant of check_arg: a no-value revokes the refinement whichever of its
\* arguments it is given for.
check_arg_any(fr) ==
    IF fr.args[fr.param] = "void"
    THEN IF fr.refine.kind = "BAR"
         THEN Type_Check_Arg_For_Param_May_Fail(fr)
         ELSE IF IS_CONDITIONAL_FALSE(fr) THEN Continue(fr)
         ELSE Continue([fr EXCEPT !.args[fr.refine.slot] = "FALSE",
                                  !.refine = FALSE_VALUE])
    ELSE IF IS_CONDITIONAL_FALSE(fr) THEN Raise(fr, "Bad_Refine_Revoke")
    ELSE Type_Check_Arg_For_Param_May_Fail(fr)

\* check_arg: a no-value for an ordinary argument is type checked; for the
\* argument of a revoked or unused refinement it is accepted; for the first
\* argument of a used refinement it revokes the refinement, for a later one
\* it is an error.  A value for the argument of a revoked or unused
\* refinement is an error.
check_arg(fr) ==
    IF fr.args[fr.param] = "void"
    THEN IF fr.refine.kind = "BAR"
         THEN Type_Check_Arg_For_Param_May_Fail(fr)
         ELSE IF IS_CONDITIONAL_FALSE(fr) THEN Continue(fr)
         ELSE IF fr.refine.slot + 1 # fr.param
         THEN Raise(fr, "Bad_Refine_Revoke")
         ELSE Continue([fr EXCEPT !.args[fr.refine.slot] = "FALSE",
                                  !.refine = FALSE_VALUE])
    ELSE IF IS_CONDITIONAL_FALSE(fr) THEN Raise(fr, "Bad_Refine_Revoke")
    ELSE Type_Check_Arg_For_Param_May_Fail(fr)

\* DO_NEXT_REFETCH_MAY_THROW into f->arg: the next expression of the call
\* site is evaluated into the slot, and f->value moves past it.
DO_NEXT_REFETCH(fr) ==
    [fr EXCEPT !.args[fr.param] = Head(fr.value),
               !.value = Tail(@),
               !.consumed = Append(@, [param |-> fr.param,
                                       pickup |-> fr.doing_pickups])]

\* A mutant of Fulfill_Arg: the arguments of a refinement left as a pickup
\* are not passed over in the walk.
Fulfill_Arg_NoDefer(fr) ==
    LET p == Params(fr)[fr.param]
    IN  IF p.class = "local"
        THEN Continue([fr EXCEPT !.args[fr.param] = "void"])
        ELSE IF fr.refine.kind = "BLANK"
        THEN Continue([fr EXCEPT !.args[fr.param] = "void"])
        ELSE IF fr.value = << >>
        THEN IF p.endable
             THEN Continue([fr EXCEPT !.args[fr.param] = "void"])
             ELSE Raise(fr, "No_Arg")
        ELSE check_arg(DO_NEXT_REFETCH(fr))

\* The slot of a parameter that is not a refinement: a local is set to
\* no-value; the argument of a refinement left for a pickup is passed over;
\* the argument of an unused refinement is set to no-value; at the end of
\* the call site an <end>able parameter gets no-value and any other is an
\* error; else the argument takes the next expression and is checked.
Fulfill_Arg(fr) ==
    LET p == Params(fr)[fr.param]
    IN  IF p.class = "local"
        THEN Continue([fr EXCEPT !.args[fr.param] = "void"])
        ELSE IF fr.refine.kind = "VOID" THEN Continue(fr)
        ELSE IF fr.refine.kind = "BLANK"
        THEN Continue([fr EXCEPT !.args[fr.param] = "void"])
        ELSE IF fr.value = << >>
        THEN IF p.endable
             THEN Continue([fr EXCEPT !.args[fr.param] = "void"])
             ELSE Raise(fr, "No_Arg")
        ELSE check_arg(DO_NEXT_REFETCH(fr))

\* After the loop with words left on the stack: the top word must be a
\* pickup; the walk resumes after the position it holds, and the word is
\* dropped.
Pickup(fr) ==
    LET top == Last(fr.stack)
    IN  IF top.pickup = 0 THEN Raise(fr, "Bad_Refine")
        ELSE Continue([fr EXCEPT !.param = top.pickup,
                                 !.refine = Slot(top.pickup),
                                 !.stack = Front(@),
                                 !.doing_pickups = TRUE])

\* After the loop with no word left on the stack: the function is
\* dispatched.
Dispatch(fr) == [fr EXCEPT !.pc = "dispatch"]

\* One step of the fulfillment of fr.
Arg_Step(fr) ==
    IF IS_END_PARAM(fr)
    THEN IF fr.stack # << >> THEN Pickup(fr) ELSE Dispatch(fr)
    ELSE IF Params(fr)[fr.param].class = "refinement"
    THEN Refinement_Slot(fr)
    ELSE Fulfill_Arg(fr)

\* The fulfillment of fr run until the function is dispatched or an error
\* is raised.
RECURSIVE Fulfill(_)
Fulfill(fr) ==
    IF fr.pc # "args" THEN fr ELSE Fulfill(Arg_Step(fr))

\* The sequences without repetition over the set of words S.
RECURSIVE Paths(_)
Paths(S) ==
    {<< >>} \cup UNION {{<<w>> \o p : p \in Paths(S \ {w})} : w \in S}

\* The call sites: every sequence of at most MaxSite values.
Sites == UNION {[1..n -> Values] : n \in 0..MaxSite}

Eval(fr) == /\ f' = fr
            /\ UNCHANGED <<ctx, call, net, rt>>

Arg_Refinement ==
    /\ f.pc = "args"
    /\ ~IS_END_PARAM(f)
    /\ Params(f)[f.param].class = "refinement"
    /\ Eval(Refinement_Slot(f))

Arg_Fulfill ==
    /\ f.pc = "args"
    /\ ~IS_END_PARAM(f)
    /\ Params(f)[f.param].class # "refinement"
    /\ Eval(Fulfill_Arg(f))

Arg_Pickup ==
    /\ f.pc = "args"
    /\ IS_END_PARAM(f)
    /\ f.stack # << >>
    /\ Eval(Pickup(f))

Arg_Dispatch ==
    /\ f.pc = "args"
    /\ IS_END_PARAM(f)
    /\ f.stack = << >>
    /\ Eval(Dispatch(f))

InitEval ==
    /\ \E func \in 1..Len(Paramlists) :
         \E path \in Paths(PathWords[func]) :
           \E site \in Sites : f = Begin_Call(func, path, site)
    /\ ctx = InitCtx
    /\ call = NoCall
    /\ net = InitNet
    /\ rt = InitRt

NextEval ==
    \/ Arg_Refinement
    \/ Arg_Fulfill
    \/ Arg_Pickup
    \/ Arg_Dispatch

SpecEval == InitEval /\ [][NextEval]_vars

(***************************************************************************)
(* C4, C5, C6                                                              *)
(***************************************************************************)

\* The refinement whose argument parameter p is: the nearest refinement
\* before p in the parameter list, 0 if p is an ordinary argument.
Owner(func, p) ==
    LET before == {r \in 1..(p - 1) : Paramlists[func][r].class = "refinement"}
    IN  IF before = {} THEN 0
        ELSE CHOOSE r \in before : \A q \in before : q <= r

\* The argument parameters of refinement r (of the ordinary arguments for
\* r = 0).
Dependents(func, r) ==
    {p \in 1..Len(Paramlists[func]) :
        Paramlists[func][p].class = "normal" /\ Owner(func, p) = r}

IsRefinement(func, sym) ==
    \E r \in 1..Len(Paramlists[func]) :
        Paramlists[func][r].class = "refinement" /\ Paramlists[func][r].sym = sym

RefIndex(func, sym) ==
    CHOOSE r \in 1..Len(Paramlists[func]) :
        Paramlists[func][r].class = "refinement" /\ Paramlists[func][r].sym = sym

NArgs(func, sym) == Cardinality(Dependents(func, RefIndex(func, sym)))

\* The parameter p took a call-site expression.
Took(p) == \E i \in 1..Len(f.consumed) : f.consumed[i].param = p

FailedAt(p) == f.pc = "error" /\ f.param = p

\* C4: for a refinement with two dependent arguments whose arguments take
\* call-site expressions: a no-value for the first sets the refinement's
\* slot to false and is no error, and a no-value for the second is then
\* accepted; a no-value for the second after a value for the first raises
\* the bad-refine-revoke error; a value for the second after the refinement
\* was revoked raises the same error.
C4_Revocation ==
    f.pc # "off" =>
    \A r \in 1..Len(Params(f)) :
        (Params(f)[r].class = "refinement"
            /\ Cardinality(Dependents(f.func, r)) = 2) =>
        LET first == r + 1
            second == r + 2
            rejected == FailedAt(second) /\ f.error = "Bad_Refine_Revoke"
        IN  /\ (Took(first) /\ f.args[first] = "void") =>
                   (f.args[r] = "FALSE" /\ ~FailedAt(first))
            /\ (Took(first) /\ Took(second)) =>
                   CASE f.args[first] = "void" /\ f.args[second] = "void" ->
                            ~FailedAt(second)
                     [] f.args[first] # "void" /\ f.args[second] = "void" ->
                            rejected
                     [] f.args[first] = "void" /\ f.args[second] # "void" ->
                            rejected
                     [] OTHER -> f.args[r] = "TRUE"

\* The function is dispatched with refinement b revoked by a no-value for c,
\* a no-value accepted for d, after both were consumed in a pickup.
C4_Witness ==
    /\ f.pc = "dispatch"
    /\ f.func = 2
    /\ f.path = <<"e", "b">>
    /\ Took(2) /\ Took(3)
    /\ f.args[1] = "FALSE" /\ f.args[2] = "void" /\ f.args[3] = "void"

\* The refinements of the path in the order the function declares them.
DeclOrder(func, path) ==
    LET syms == [i \in 1..Len(Paramlists[func]) |-> Paramlists[func][i].sym]
    IN  SelectSeq(syms, LAMBDA s : IsRefinement(func, s)
                                   /\ \E k \in 1..Len(path) : path[k] = s)

\* The number of call-site expressions before those of the k-th refinement
\* of the path.
RECURSIVE Offset(_, _, _)
Offset(func, path, k) ==
    IF k = 1 THEN Cardinality(Dependents(func, 0))
    ELSE Offset(func, path, k - 1) + NArgs(func, path[k - 1])

\* The call-site expressions that follow the refinement sym of the path.
Block(func, path, site, sym) ==
    LET k == CHOOSE i \in 1..Len(path) : path[i] = sym
        off == Offset(func, path, k)
    IN  SubSeq(site, off + 1, off + NArgs(func, sym))

RECURSIVE Blocks(_, _, _, _)
Blocks(func, path, site, order) ==
    IF order = << >> THEN << >>
    ELSE Block(func, path, site, Head(order))
         \o Blocks(func, path, site, Tail(order))

\* The call site of the same call made with the refinements in declaration
\* order: each refinement keeps the expressions that followed it.
DeclSite(func, path, site) ==
    LET n == Offset(func, path, Len(path) + 1)
    IN  SubSeq(site, 1, Cardinality(Dependents(func, 0)))
        \o Blocks(func, path, site, DeclOrder(func, path))
        \o SubSeq(site, n + 1, Len(site))

\* The call site has an expression for every argument the call takes.
Supplied == Len(f.site) >= Offset(f.func, f.path, Len(f.path) + 1)

\* C5: when a call naming refinements in some order is dispatched, the call
\* naming the same refinements in declaration order, each followed by the
\* same argument values, is dispatched too, with the same value in every
\* slot of the argument frame.
C5_OrderIndependent ==
    (f.pc = "dispatch" /\ Supplied) =>
        LET g == Fulfill(Begin_Call(f.func, DeclOrder(f.func, f.path),
                                    DeclSite(f.func, f.path, f.site)))
        IN  g.pc = "dispatch" /\ g.args = f.args

\* A call naming three argument-taking refinements out of declaration order
\* is dispatched, with different values for the first two.
C5_Witness ==
    /\ f.pc = "dispatch"
    /\ f.func = 3
    /\ f.path = <<"f", "b", "d">>
    /\ f.args = <<"TRUE", "a", "TRUE", "1", "TRUE", "1">>

\* The place in the path of the refinement owning parameter p, 0 for an
\* ordinary argument.
PathPos(p) ==
    LET r == Owner(f.func, p)
    IN  IF r = 0 THEN 0
        ELSE CHOOSE k \in 1..Len(f.path) : f.path[k] = Params(f)[r].sym

\* C6: no parameter takes a call-site expression twice; when the function is
\* dispatched every argument of every refinement of the path has taken one;
\* the arguments of a deferred refinement take theirs in the second pass,
\* which begins when the walk has visited every other slot, and no
\* expression is taken by the walk after that; and the expressions are taken
\* by the refinements in the order of the path.
C6_ConsumedOnceInPathOrder ==
    f.pc # "off" =>
    LET c == f.consumed
        n == Len(c)
    IN  /\ \A i, j \in 1..n : i < j => c[i].param # c[j].param
        /\ (f.pc = "dispatch" /\ Supplied) =>
               \A k \in 1..Len(f.path) :
                   \A p \in Dependents(f.func, RefIndex(f.func, f.path[k])) :
                       Took(p)
        /\ \A i \in 1..n :
               c[i].pickup <=> (Owner(f.func, c[i].param) \in f.deferred)
        /\ \A i, j \in 1..n : (i < j /\ c[i].pickup) => c[j].pickup
        /\ f.doing_pickups =>
               \A p \in 1..Len(f.args) :
                   f.args[p] = "END" => Owner(f.func, p) \in f.deferred
        /\ \A i, j \in 1..n :
               i < j => PathPos(c[i].param) <= PathPos(c[j].param)

\* A call naming three refinements is dispatched after one was fulfilled in
\* the walk and two were deferred.
C6_Witness ==
    /\ f.pc = "dispatch"
    /\ f.func = 3
    /\ f.path = <<"d", "b", "f">>
    /\ Len(f.consumed) = 3
    /\ f.deferred = {1, 5}

(***************************************************************************)
(* TLS: the session driven by transport events (prot-tls.r).               *)
(*                                                                         *)
(* A session value s pairs the session object s.ctx with its surroundings  *)
(* s.net: the transport (conn, the bytes the server sent that are still to *)
(* be delivered in wire, the completed writes whose wrote event is pending,*)
(* whether a read is outstanding), the waits in progress (stack: the       *)
(* handlers suspended in the `wait` of do-commands, innermost last), the   *)
(* error that ended the session, the events forwarded upward (up), and the *)
(* history the properties are stated on: sent (the writes made to the      *)
(* transport), stream (the bytes the server sent), frags (the fragments    *)
(* parse-response returned for), written/parsed (the records written and   *)
(* parsed) with wfin/rfin (how many came before the last finished message  *)
(* of the direction), resp1 (the type the connect handler saw in resp/1)   *)
(* and handler (whether the connect handler ran to its end), woke (the     *)
(* last event ended the wait the application made) and closes (the times   *)
(* tls-awake closed the transport).                                        *)
(*                                                                         *)
(* A record on the wire is its 5 header bytes (type, version 3 1, length)  *)
(* and its payload.  A handshake message is one payload byte, its message  *)
(* type, followed for a finished message by its verify data, 1 when it is  *)
(* the PRF of the messages exchanged, and in an encrypted record by its    *)
(* MAC; an alert is its two bytes; an application record is its MAC.  A    *)
(* MAC covers the sequence number of the record: its byte is the number it *)
(* was made with.  log holds the records written and received, in order.   *)
(***************************************************************************)

\* The bounds of the session model: the records the server sends, the bytes
\* on the wire beyond which the server holds back, and the writes the
\* application makes.
MaxRecords == 5

MaxWire == 1

MaxWrites == 1

Session(c, n) == [ctx |-> c, net |-> n]

failed(s) == s.net.error # blank

\* fail: the error leaves every handler in progress.
fail(s, message) == [s EXCEPT !.net.error = message, !.net.stack = << >>]

\* An event inserted into the system port for the TLS port.
forward(s, type) == [s EXCEPT !.net.up[type] = @ + 1]

emit(c, record) == [c EXCEPT !.msg = Append(@, record)]

\* A handshake message in ctx/handshake-messages: who sent it and its type
\* stand for its bytes.
Message(from, type) == [from |-> from, type |-> type]

\* client-hello: the handshake messages are cleared, and the message is
\* emitted and appended to them.
client_hello(c) ==
    [emit(c, "<client-hello>") EXCEPT
        !.handshake_messages = <<Message("client", "<client-hello>")>>]

\* client-key-exchange: the message is emitted and appended to the
\* handshake messages.
client_key_exchange(c) ==
    [emit(c, "<client-key-exchange>") EXCEPT
        !.handshake_messages =
            Append(@, Message("client", "<client-key-exchange>"))]

\* A mutant of finished: the write sequence number is kept.
finished_keep(c) == [c EXCEPT !.verify = c.handshake_messages]

\* finished: restarts the write sequence number, and returns the message
\* with the PRF of the checksums of the handshake messages (verify: the
\* messages stand for their PRF).
finished(c) == [c EXCEPT !.seq_num_w = 0, !.verify = c.handshake_messages]

\* A mutant of encrypted_handshake_msg: the message is not appended to the
\* handshake messages.
encrypted_handshake_msg_forget(c) == emit(c, "<finished>")

\* encrypted-handshake-msg of the message finished returned: the record is
\* emitted and the plain message appended to the handshake messages.
encrypted_handshake_msg(c) ==
    [emit(c, "<finished>") EXCEPT
        !.handshake_messages = Append(@, Message("client", "<finished>"))]

\* The record a command of do-commands emits.
emit_command(c, cmd) ==
    CASE cmd = "<client-hello>" -> client_hello(c)
      [] cmd = "<client-key-exchange>" -> client_key_exchange(c)
      [] cmd = "<finished>" -> encrypted_handshake_msg(finished(c))
      [] OTHER -> emit(c, cmd)

\* One command of do-commands: the record is emitted, seq-num-w is
\* incremented and the write state is updated.
command(s, cmd) ==
    LET updated(c1, r) ==
            IF ~r.ok
            THEN fail([s EXCEPT !.ctx = c1], "illegal state transition")
            ELSE [s EXCEPT !.ctx = r.ctx,
                           !.net.written = @ + 1,
                           !.net.wfin = IF cmd = "<finished>"
                                        THEN s.net.written ELSE @]
        emitted(c1) == updated(c1, update_write_state(c1, cmd))
    IN  emitted([emit_command(s.ctx, cmd) EXCEPT !.seq_num_w = @ + 1])

\* The commands do-commands' parse rule matches (#application stands for
\* #application followed by text or binary).
Commands ==
    {"<client-hello>", "<client-key-exchange>", "<change-cipher-spec>",
     "<finished>", "#application", "<close-notify>"}

\* The parse of do-commands: the commands are run in turn up to the first
\* item the rule does not match.
RECURSIVE run_commands(_, _)
run_commands(s, commands) ==
    IF failed(s) \/ commands = << >> \/ Head(commands) \notin Commands THEN s
    ELSE run_commands(command(s, Head(commands)), Tail(commands))

\* do-commands: the outgoing buffer is cleared, the commands are run, the
\* responses are reset and the buffer is written to the transport; unless
\* /no-wait, the caller then waits on the transport (at names the caller).
do_commands(s, commands, at) ==
    LET written(s1) ==
            IF failed(s1) THEN s1
            ELSE [s1 EXCEPT !.ctx.resp = << >>,
                            !.net.sent = Append(@, s1.ctx.msg),
                            !.net.log = Append(@, [from |-> "client",
                                                   data |-> s1.ctx.msg]),
                            !.net.wrote = @ + 1,
                            !.net.stack = IF at = blank THEN @
                                          ELSE Append(@, at)]
    IN  written(run_commands([s EXCEPT !.ctx.msg = << >>], commands))

protocol_types ==
    << <<20, "<change-cipher-spec>">>, <<21, "#alert">>,
       <<22, "#handshake">>, <<23, "#application">> >>

message_types ==
    << <<0, "#hello-request">>, <<1, "<client-hello>">>,
       <<2, "<server-hello>">>, <<11, "<certificate>">>,
       <<12, "<server-key-exchange>">>, <<13, "certificate-request@">>,
       <<14, "#server-hello-done">>, <<15, "certificate-verify@">>,
       <<16, "<client-key-exchange>">>, <<20, "<finished>">> >>

alert_descriptions ==
    << <<0, "Close notify">>, <<10, "Unexpected message">>,
       <<20, "Bad record MAC">>, <<21, "Decryption failed">>,
       <<22, "Record overflow">>, <<30, "Decompression failure">>,
       <<40, "Handshake failure - no supported cipher suite available on server">>,
       <<41, "No certificate">>, <<42, "Bad certificate">>,
       <<43, "Unsupported certificate">>, <<44, "Certificate revoked">>,
       <<45, "Certificate expired">>, <<46, "Certificate unknown">>,
       <<47, "Illegal parameter">>, <<48, "Unknown CA">>,
       <<49, "Access denied">>, <<50, "Decode error">>,
       <<51, "Decrypt error">>, <<60, "Export restriction">>,
       <<70, "Protocol version">>, <<71, "Insufficient security">>,
       <<80, "Internal error">>, <<90, "User cancelled">>,
       <<100, "No renegotiation">>, <<110, "Unsupported extension">> >>

\* select alert-descriptions data/2 !! "unknown".
alert_description(data) ==
    IF Len(data) < 2 \/ select(alert_descriptions, data[2]) = blank
    THEN "unknown"
    ELSE select(alert_descriptions, data[2])

\* A mutant of fatal_alert: no alert is fatal.
fatal_alert_never(proto) == FALSE

\* The test of parse-messages for a fatal alert: the first byte of the
\* record's content is greater than 1.
fatal_alert(proto) ==
    /\ proto.type = "#alert"
    /\ proto.messages # << >>
    /\ proto.messages[1] > 1

\* to-integer/unsigned of two bytes.
to_integer(hi, lo) == hi * 256 + lo

\* parse-protocol of a fragment whose type byte is known.
parse_protocol(data) ==
    LET size == to_integer(data[4], data[5])
    IN  [type |-> select(protocol_types, data[1]), size |-> size,
         messages |-> SubSeq(data, 6, Min(Len(data), 5 + size))]

\* The handshake messages sent in a write of the given commands.
ClientMessages(commands) ==
    LET sent == SelectSeq(commands,
                    LAMBDA c : c \in {"<client-hello>", "<client-key-exchange>",
                                      "<finished>"})
    IN  [i \in 1..Len(sent) |-> Message("client", sent[i])]

\* The bytes of the handshake message at the head of `data`: its type, the
\* verify data of a finished message, and its MAC in an encrypted record.
message_size(data, encrypted) ==
    1 + (IF Head(data) = 20 THEN 1 ELSE 0) + (IF encrypted THEN 1 ELSE 0)

\* The handshake messages of the content of a handshake record.
RECURSIVE ServerMessages(_, _)
ServerMessages(data, encrypted) ==
    IF data = << >> THEN << >>
    ELSE <<Message("server", select(message_types, Head(data)))>>
         \o ServerMessages(SubSeq(data, message_size(data, encrypted) + 1,
                                  Len(data)), encrypted)

\* The handshake messages of the records written and received, in order;
\* the records are encrypted from the change-cipher-spec of the server on.
RECURSIVE Exchange(_, _)
Exchange(log, encrypted) ==
    IF log = << >> THEN << >>
    ELSE IF Head(log).from = "client"
    THEN ClientMessages(Head(log).data) \o Exchange(Tail(log), encrypted)
    ELSE (IF Head(log).data[1] = 22
          THEN ServerMessages(SubSeq(Head(log).data, 6, Len(Head(log).data)),
                              encrypted)
          ELSE << >>)
         \o Exchange(Tail(log), encrypted \/ Head(log).data[1] = 20)

\* A mutant of mac_check: the MAC does not cover the sequence number.
mac_check_unnumbered(c, mac) == TRUE

\* The comparison of the MAC of a received record with the checksum made
\* of seq-num-r, the type, the version, the length and the content, under
\* the server's MAC key: the MAC is the sequence number it was made with.
mac_check(c, mac) == mac = c.seq_num_r

\* The comparison of the content of a received finished message with the
\* PRF of the checksums of the handshake messages: the content is 1 when it
\* is the PRF of the messages exchanged.
verified(c, content, exchanged) ==
    content = <<1>> /\ c.handshake_messages = exchanged

\* The loop of parse-messages over the messages of a handshake record: the
\* read state is updated for each message (to #encrypted-handshake once the
\* cipher spec has changed); a finished message restarts seq-num-r and its
\* content is compared; the message is appended to the handshake messages;
\* in an encrypted record its MAC, which covers seq-num-r, is compared (the
\* MAC byte is the sequence number it was made with).  st pairs the session
\* with the result block.
RECURSIVE handshake_messages(_, _)
handshake_messages(st, data) ==
    IF failed(st.s) \/ data = << >> THEN st
    ELSE LET encrypted == st.s.ctx.encrypted
             size == message_size(data, encrypted)
             content == SubSeq(data, 2, IF encrypted THEN size - 1 ELSE size)
             exchanged ==
                 Exchange(st.s.net.log, FALSE)
                 \o [i \in 1..Len(st.result) |->
                        Message("server", st.result[i].type)]
             appended(msg_type, c) ==
                 IF encrypted /\ ~(/\ Len(data) >= size
                                   /\ mac_check(c, data[size]))
                 THEN [st EXCEPT !.s = fail([@ EXCEPT !.ctx = c],
                                            "Bad handshake record MAC")]
                 ELSE handshake_messages(
                          [s |-> [st.s EXCEPT !.ctx = c],
                           result |-> Append(st.result, [type |-> msg_type])],
                          SubSeq(data, size + 1, Len(data)))
             switched(msg_type, c) ==
                 IF msg_type = "<finished>" /\ ~verified(c, content, exchanged)
                 THEN [st EXCEPT !.s = fail([@ EXCEPT !.ctx = c],
                                            "Bad 'finished' MAC")]
                 ELSE appended(msg_type,
                               [c EXCEPT !.handshake_messages =
                                   Append(@, Message("server", msg_type))])
             updated(msg_type, r) ==
                 IF ~r.ok
                 THEN [st EXCEPT !.s = fail(@, "illegal state transition")]
                 ELSE switched(msg_type,
                               IF msg_type = "<finished>"
                               THEN [r.ctx EXCEPT !.seq_num_r = 0]
                               ELSE r.ctx)
             message(msg_type) ==
                 updated(msg_type,
                         update_read_state(st.s.ctx,
                             IF encrypted THEN "#encrypted-handshake"
                             ELSE msg_type))
         IN  message(select(message_types, Head(data)))

\* parse-messages: a fatal alert fails; a record that is not a handshake
\* updates the read state to its type; the messages are read according to
\* the type; seq-num-r is incremented.
parse_messages(s, proto) ==
    LET data == proto.messages
        counted(st) ==
            IF failed(st.s) THEN st
            ELSE [st EXCEPT !.s.ctx.seq_num_r = @ + 1,
                            !.s.net.parsed = @ + 1,
                            !.s.net.rfin =
                                IF \E i \in 1..Len(st.result) :
                                       st.result[i].type = "<finished>"
                                THEN s.net.parsed ELSE @]
        messages(s1) ==
            CASE proto.type = "#alert" ->
                   [s |-> s1,
                    result |-> <<[type |-> alert_description(data)]>>]
              [] proto.type = "#handshake" ->
                   handshake_messages([s |-> s1, result |-> << >>], data)
              [] proto.type = "<change-cipher-spec>" ->
                   [s |-> [s1 EXCEPT !.ctx.encrypted = TRUE],
                    result |-> <<[type |-> "ccs-message-type"]>>]
              [] OTHER ->
                   [s |-> IF data # << >> /\ mac_check(s1.ctx, data[1])
                          THEN s1
                          ELSE fail(s1, "Bad application record MAC"),
                    result |-> <<[type |-> "app-data"]>>]
        updated(r) ==
            IF fatal_alert(proto)
            THEN [s |-> fail(s, alert_description(data)), result |-> << >>]
            ELSE IF ~r.ok
            THEN [s |-> fail(s, "illegal state transition"),
                  result |-> << >>]
            ELSE counted(messages([s EXCEPT !.ctx = r.ctx]))
    IN  updated(IF proto.type # "#handshake"
                THEN update_read_state(s.ctx, proto.type)
                ELSE [ok |-> TRUE, ctx |-> s.ctx])

\* parse-response of a fragment: the record is appended to ctx/resp (by
\* tls-read-data) with the messages parse-messages read in it.
parse_response(s, msg) ==
    IF select(protocol_types, msg[1]) = blank
    THEN fail(s, "unknown/invalid protocol type")
    ELSE LET parsed(proto, st) ==
                 IF failed(st.s) THEN st.s
                 ELSE IF st.result = << >>
                 THEN fail(st.s, "unknown/invalid protocol message")
                 ELSE IF Len(msg) > proto.size + 5
                 THEN fail(st.s, "invalid length of response fragment")
                 ELSE [st.s EXCEPT
                          !.ctx.resp = Append(@, [type |-> proto.type,
                                                  messages |-> st.result]),
                          !.net.frags = Append(@, msg),
                          !.net.log = Append(@, [from |-> "server",
                                                 data |-> msg])]
             protocol(proto) == parsed(proto, parse_messages(s, proto))
         IN  protocol(parse_protocol(msg))

\* The loop of tls-read-data over the records at `data`, a position in the
\* data buffer: a record is parsed when its 5 header bytes and the bytes of
\* its declared length are there.  When the data is exhausted in a mode
\* that is an issue the buffer is cleared and the result is true; else what
\* is left of the data replaces the buffer and the result is false.
RECURSIVE read_records(_, _)
read_records(s, data) ==
    LET len == 5 + to_integer(data[4], data[5])
        rest == SubSeq(data, len + 1, Len(data))
        left == [s |-> [s EXCEPT !.ctx.data_buffer = data],
                 complete |-> FALSE]
        parsed(s1) ==
            IF failed(s1) THEN [s |-> s1, complete |-> FALSE]
            ELSE IF rest = << >> /\ issue(s1.ctx.mode)
            THEN [s |-> [s1 EXCEPT !.ctx.data_buffer = << >>],
                  complete |-> TRUE]
            ELSE read_records(s1, rest)
    IN  IF Len(data) < 5 THEN left
        ELSE IF len > Len(data) THEN left
        ELSE parsed(parse_response(s, SubSeq(data, 1, len)))

\* A mutant of tls-read-data: the bytes buffered before are forgotten.
tls_read_data_forget(s, port_data) ==
    read_records([s EXCEPT !.ctx.data_buffer = port_data], port_data)

\* tls-read-data: the bytes of the read event are appended to the data
\* buffer, and the records in the buffer are parsed.
tls_read_data(s, port_data) ==
    LET data == s.ctx.data_buffer \o port_data
    IN  read_records([s EXCEPT !.ctx.data_buffer = data], data)

\* The place in resp of the first alert record with a close-notify message,
\* 0 when there is none.
first_close_notify(resp) ==
    LET at == {i \in 1..Len(resp) :
                  /\ resp[i].type = "#alert"
                  /\ \E j \in 1..Len(resp[i].messages) :
                         resp[i].messages[j].type = "Close notify"}
    IN  IF at = {} THEN 0 ELSE CHOOSE i \in at : \A k \in at : i <= k

\* The read branch of tls-awake up to its return or to the wait of the
\* do-commands it calls: the bytes are read; the application data of the
\* responses is moved to the port's data (each message once); a
\* close-notify alert is answered with a close-notify; else, a read event
\* is forwarded when application data arrived and the transport is read
\* again when none did.  The result is the session and the return value.
awake_read(s, port_data) ==
    LET responses(r, resp, k) ==
            LET upto == IF k = 0 THEN Len(resp) ELSE k - 1
                application ==
                    \E i \in 1..upto :
                        /\ resp[i].type = "#application"
                        /\ \E j \in 1..Len(resp[i].messages) :
                               resp[i].messages[j].type = "app-data"
                taken == [i \in 1..Len(resp) |->
                             IF i <= upto /\ resp[i].type = "#application"
                             THEN [resp[i] EXCEPT !.messages =
                                      [j \in 1..Len(@) |-> [type |-> blank]]]
                             ELSE resp[i]]
                moved(s1) ==
                    IF k # 0
                    THEN [s |-> do_commands(s1, <<"<close-notify>">>,
                                            "close-notify"),
                          ret |-> FALSE]
                    ELSE [s |-> IF application THEN forward(s1, "read")
                                ELSE [s1 EXCEPT !.net.reading = TRUE],
                          ret |-> r.complete]
            IN  IF failed(r.s) THEN [s |-> r.s, ret |-> FALSE]
                ELSE moved([r.s EXCEPT !.ctx.resp = taken])
        read(r) == responses(r, r.s.ctx.resp,
                             first_close_notify(r.s.ctx.resp))
    IN  read(tls_read_data(s, port_data))

\* A mutant of awake_wrote: in the close-notify mode the transport is read
\* and the handler returns false.
awake_wrote_reading(s) ==
    CASE s.ctx.mode = "#application" ->
             [s |-> forward(s, "wrote"), ret |-> FALSE]
      [] OTHER -> [s |-> [s EXCEPT !.net.reading = TRUE], ret |-> FALSE]

\* The wrote branch of tls-awake.
awake_wrote(s) ==
    CASE s.ctx.mode = "<close-notify>" -> [s |-> s, ret |-> TRUE]
      [] s.ctx.mode = "#application" ->
             [s |-> forward(s, "wrote"), ret |-> FALSE]
      [] OTHER -> [s |-> [s EXCEPT !.net.reading = TRUE], ret |-> FALSE]

\* A mutant of awake_close: the transport is closed by the handler.
awake_close_closing(s) ==
    [s |-> forward([s EXCEPT !.net.closes = @ + 1], "close"), ret |-> TRUE]

\* The close branch of tls-awake.
awake_close(s) == [s |-> forward(s, "close"), ret |-> TRUE]

\* The end of the connect branch of tls-awake.
connected(s) == [forward(s, "connect") EXCEPT !.net.handler = "done"]

\* A mutant of after_hello: the three messages are never written.
after_hello_never(s, lenient) ==
    LET resp1 == IF s.ctx.resp = << >> THEN blank ELSE s.ctx.resp[1].type
    IN  IF s.ctx.resp = << >> /\ ~lenient
        THEN fail(s, "cannot pick from blank")
        ELSE connected([s EXCEPT !.net.resp1 = resp1])

\* The connect branch of tls-awake from the return of do-commands
\* [<client-hello>]: the three messages are sent when resp/1 is a handshake
\* record.  With no response at all resp/1 is blank, and the type picked
\* from it is blank too when lenient, an error when not.
after_hello(s, lenient) ==
    LET resp1 == IF s.ctx.resp = << >> THEN blank ELSE s.ctx.resp[1].type
        s1 == [s EXCEPT !.net.resp1 = resp1]
    IN  IF s.ctx.resp = << >> /\ ~lenient
        THEN fail(s, "cannot pick from blank")
        ELSE IF resp1 = "#handshake"
        THEN do_commands(s1, <<"<client-key-exchange>",
                               "<change-cipher-spec>", "<finished>">>,
                         "finished")
        ELSE connected(s1)

\* An awake handler returned true: the innermost wait returns, and the
\* handler that made it goes on.  The read branch waiting for its
\* close-notify to be written forwards a read event and returns true in its
\* turn.  With no handler waiting, it is the wait of the application that
\* returns (woke).
RECURSIVE wake(_, _)
wake(s, lenient) ==
    IF failed(s) THEN s
    ELSE IF s.net.stack = << >> THEN [s EXCEPT !.net.woke = TRUE]
    ELSE LET at == Last(s.net.stack)
             s1 == [s EXCEPT !.net.stack = Front(@)]
         IN  CASE at = "hello" -> after_hello(s1, lenient)
               [] at = "finished" -> connected(s1)
               [] OTHER -> wake(forward(s1, "read"), lenient)

\* The return of an awake handler to the wait it ran under.
returned(r, lenient) == IF r.ret THEN wake(r.s, lenient) ELSE r.s

\* tls-init.
tls_init(c) ==
    [c EXCEPT !.seq_num_r = 0, !.seq_num_w = 0, !.mode = blank,
              !.encrypted = FALSE]

\* A mutant of the actor's write: the mode is not looked at.
write_always(s, value) ==
    [s |-> do_commands(s, <<IF value = "text" THEN "#application"
                            ELSE value>>, blank),
     result |-> "port"]

\* The actor's write: in the two modes that allow it, do-commands/no-wait
\* of [#application value], whose rule matches when value is text or binary.
write(s, value) ==
    IF s.ctx.mode \in {"#encrypted-handshake", "#application"}
    THEN [s |-> do_commands(s, <<IF value = "text" THEN "#application"
                                 ELSE value>>, blank),
          result |-> "port"]
    ELSE [s |-> s, result |-> blank]

\* A record as the server puts it on the wire.
Record(type, payload) == <<type, 3, 1, 0, Len(payload)>> \o payload

\* The records the server may send: server-hello; certificate and
\* server-hello-done; the three in one record; change-cipher-spec; finished
\* with MAC number 0, the same with other verify data, and with MAC number
\* 1; application data with MAC numbers 1, 2 and 0; a close-notify warning;
\* a fatal handshake-failure alert; an alert of level 3 with a code outside
\* the table; a warning that is no close-notify; a record of unknown type;
\* a server-hello-done with MAC number 2 (read as such once the cipher spec
\* has changed, as a server-hello-done and a server-hello before).
ServerRecords ==
    { Record(22, <<2>>), Record(22, <<11, 14>>), Record(22, <<2, 11, 14>>),
      Record(20, <<1>>), Record(22, <<20, 1, 0>>), Record(22, <<20, 0, 0>>),
      Record(22, <<20, 1, 1>>), Record(23, <<1>>), Record(23, <<2>>),
      Record(23, <<0>>), Record(21, <<1, 0>>), Record(21, <<2, 40>>),
      Record(21, <<3, 99>>), Record(21, <<0, 90>>), Record(24, <<0>>),
      Record(22, <<14, 2>>) }

Events == {"lookup", "connect", "wrote", "read", "close"}

\* The session as an event or a call finds it.
Here == Session(ctx, [net EXCEPT !.woke = FALSE])

Live == net.error = blank /\ net.conn = "open"

TLS(s) == /\ ctx' = s.ctx
          /\ net' = s.net
          /\ call' = NoCall
          /\ UNCHANGED <<rt, f>>

\* A call of tls-awake with an event of the given type, in the given mode.
Awake(type, s) ==
    /\ ctx' = s.ctx
    /\ net' = s.net
    /\ call' = [op |-> "awake", type |-> type, mode |-> ctx.mode]
    /\ UNCHANGED <<rt, f>>

\* tls-awake, lookup: the session is initialized and the event forwarded.
AwakeLookup ==
    /\ net.error = blank
    /\ net.conn = "lookup"
    /\ Awake("lookup", forward([Here EXCEPT !.ctx = tls_init(@),
                                            !.net.conn = "connecting"],
                               "lookup"))

\* tls-awake, connect, up to the wait of do-commands [<client-hello>].
AwakeConnect ==
    /\ net.error = blank
    /\ net.conn = "connecting"
    /\ Awake("connect", do_commands([Here EXCEPT !.net.conn = "open"],
                                    <<"<client-hello>">>, "hello"))

\* tls-awake, wrote.
AwakeWrote ==
    /\ Live
    /\ net.wrote > 0
    /\ \E lenient \in BOOLEAN :
         Awake("wrote",
               returned(awake_wrote([Here EXCEPT !.net.wrote = @ - 1]),
                        lenient))

\* tls-awake, read, with the first n bytes of the wire as port/data.
AwakeRead ==
    /\ Live
    /\ net.reading
    /\ \E n \in 1..Len(net.wire) : \E lenient \in BOOLEAN :
         LET rejoined(r) == /\ ctx.data_buffer # << >>
                            /\ Len(r.s.net.frags) > Len(net.frags)
             handled(r) ==
                 Awake("read",
                       returned([r EXCEPT
                                    !.s.net.rejoined = @ \/ rejoined(r)],
                                lenient))
         IN  handled(awake_read([Here EXCEPT
                         !.net.reading = FALSE,
                         !.net.wire = SubSeq(@, n + 1, Len(@))],
                         SubSeq(net.wire, 1, n)))

\* tls-awake, close: the event is forwarded and the handler returns true.
\* The transport sends the event when the peer has closed the connection:
\* no event follows it.
AwakeClose ==
    /\ Live
    /\ \E lenient \in BOOLEAN :
         Awake("close",
               returned(awake_close([Here EXCEPT !.net.conn = "closed"]),
                        lenient))

\* tls-awake with an event of another type: the transport is closed and the
\* handler fails.
AwakeUnexpected ==
    /\ Live
    /\ Awake("custom", fail([Here EXCEPT !.net.closes = @ + 1],
                            "Unexpected TLS event"))

\* The wait of a do-commands ends after 30 seconds: fail "port timeout".
Timeout ==
    /\ Live
    /\ net.stack # << >>
    /\ TLS(fail(Here, "port timeout"))

\* The server sends a record.
ServerSend ==
    /\ Live
    /\ net.nsent < MaxRecords
    /\ Len(net.wire) <= MaxWire
    /\ \E r \in ServerRecords :
         TLS([Here EXCEPT !.net.nsent = @ + 1,
                          !.net.wire = @ \o r,
                          !.net.stream = @ \o r])

\* The actor's read: a read of the transport.
Read ==
    /\ Live
    /\ net.stack = << >>
    /\ ~net.reading
    /\ TLS([Here EXCEPT !.net.reading = TRUE])

\* The actor's write of text or of a value that is not text.
Write ==
    /\ net.error = blank
    /\ net.conn # "closed"
    /\ net.stack = << >>
    /\ net.nwrites < MaxWrites
    /\ \E value \in {"text", "integer"} :
         LET called(r) ==
                 /\ ctx' = r.s.ctx
                 /\ net' = r.s.net
                 /\ call' = [op |-> "write", value |-> value,
                             mode |-> ctx.mode, result |-> r.result,
                             msg |-> ctx.msg, seq_num_w |-> ctx.seq_num_w,
                             sent |-> net.sent]
                 /\ UNCHANGED <<rt, f>>
         IN  called(write([Here EXCEPT !.net.nwrites = @ + 1], value))

InitTLS ==
    /\ ctx = InitCtx
    /\ call = NoCall
    /\ net = [conn |-> "lookup", stack |-> << >>, error |-> blank,
              wrote |-> 0, reading |-> FALSE, wire |-> << >>,
              up |-> [e \in Events |-> 0], sent |-> << >>,
              nsent |-> 0, nwrites |-> 0, stream |-> << >>, frags |-> << >>,
              written |-> 0, wfin |-> 0, parsed |-> 0, rfin |-> 0,
              resp1 |-> blank, handler |-> "idle", rejoined |-> FALSE,
              woke |-> FALSE, closes |-> 0, log |-> << >>]
    /\ rt = InitRt
    /\ f = InitFrame

NextTLS ==
    \/ AwakeLookup
    \/ AwakeConnect
    \/ AwakeWrote
    \/ AwakeRead
    \/ AwakeClose
    \/ AwakeUnexpected
    \/ Timeout
    \/ ServerSend
    \/ Read
    \/ Write

SpecTLS == InitTLS /\ [][NextTLS]_vars

(***************************************************************************)
(* C7, C8, C9, C10                                                         *)
(***************************************************************************)

\* C7 as stated: while the session has not failed, each direction's
\* sequence number is the number of records written, respectively parsed,
\* in that direction (the initial value being 0).
C7_Original ==
    net.error = blank =>
        /\ ctx.seq_num_w = net.written
        /\ ctx.seq_num_r = net.parsed

\* C7 amended: while the session has not failed, each direction's sequence
\* number is the number of records written, respectively parsed, since the
\* last record of that direction holding a finished message, that record
\* included (since the start when there was none): every record adds one,
\* whatever its type, except that a finished message restarts the count,
\* leaving the number at 1 after its record.
C7_SequenceNumbers ==
    net.error = blank =>
        /\ ctx.seq_num_w = net.written - net.wfin
        /\ ctx.seq_num_r = net.parsed - net.rfin

\* Both directions have gone through a finished message and one more
\* record.
C7_Witness ==
    /\ net.error = blank
    /\ net.written = 5 /\ net.wfin = 3 /\ ctx.seq_num_w = 2
    /\ net.parsed = 4 /\ net.rfin = 2 /\ ctx.seq_num_r = 2

\* C8: a write made in mode #encrypted-handshake or #application returns
\* the port, and with text sends one application record; a write made in
\* any other mode returns blank, leaves ctx/msg, seq-num-w and the mode as
\* they were and writes nothing to the transport.
C8_WriteOnlyWhenReady ==
    call.op = "write" =>
        IF call.mode \in {"#encrypted-handshake", "#application"}
        THEN /\ call.result = "port"
             /\ call.value = "text" =>
                    net.sent = Append(call.sent, <<"#application">>)
        ELSE /\ call.result = blank
             /\ ctx.msg = call.msg
             /\ ctx.seq_num_w = call.seq_num_w
             /\ ctx.mode = call.mode
             /\ net.sent = call.sent

\* A write was refused in the middle of the handshake, after the session
\* had written its messages.
C8_Witness ==
    /\ call.op = "write"
    /\ call.result = blank
    /\ call.mode \notin {blank, "#encrypted-handshake", "#application"}
    /\ net.sent # << >>

RECURSIVE Concat(_)
Concat(ss) == IF ss = << >> THEN << >> ELSE Head(ss) \o Concat(Tail(ss))

\* The bytes are those of one whole record.
WholeRecord(bytes) ==
    Len(bytes) >= 5 /\ Len(bytes) = 5 + to_integer(bytes[4], bytes[5])

\* C9: while the session has not failed, the fragments parsed so far,
\* followed by the data buffer and by the bytes not yet delivered, are the
\* bytes the server sent, in order; every fragment parsed is one whole
\* record; and the data buffer holds no whole record.
C9_Reassembly ==
    net.error = blank =>
        /\ Concat(net.frags) \o ctx.data_buffer \o net.wire = net.stream
        /\ \A i \in 1..Len(net.frags) : WholeRecord(net.frags[i])
        /\ \A n \in 1..Len(ctx.data_buffer) :
               ~WholeRecord(SubSeq(ctx.data_buffer, 1, n))

\* A record that arrived in more than one read event was parsed, and the
\* head of the next record is in the data buffer.
C9_Witness ==
    /\ net.error = blank
    /\ net.rejoined
    /\ Len(net.frags) >= 2
    /\ ctx.data_buffer # << >>

LaterMessages ==
    <<"<client-key-exchange>", "<change-cipher-spec>", "<finished>">>

\* C10: none of client-key-exchange, change-cipher-spec and finished is
\* written before client-hello, which is the first thing written once the
\* transport is connected; a connect event is forwarded when the connect
\* handler has run to its end, and not before; and when it has, the second
\* write was the three messages in order if the first record parsed in
\* response was a handshake record, and none of the three was ever written
\* if it was not.
C10_ConnectSequence ==
    LET w == Concat(net.sent)
        handshake == net.frags # << >> /\ net.frags[1][1] = 22
        three == Len(net.sent) >= 2 /\ net.sent[2] = LaterMessages
    IN  /\ \A i \in 1..Len(w) :
               w[i] \in Range(LaterMessages) =>
                   \E j \in 1..(i - 1) : w[j] = "<client-hello>"
        /\ net.conn \in {"open", "closed"} =>
               (net.sent # << >> /\ net.sent[1] = <<"<client-hello>">>)
        /\ net.up["connect"] = (IF net.handler = "done" THEN 1 ELSE 0)
        /\ net.handler = "done" =>
               /\ handshake <=> three
               /\ handshake <=> (net.resp1 = "#handshake")
               /\ ~handshake =>
                      \A i \in 1..Len(w) : w[i] \notin Range(LaterMessages)

\* The connect handler has run to its end after a handshake response: the
\* three messages were written after client-hello, and the connect event
\* was forwarded.
C10_Witness ==
    /\ net.error = blank
    /\ net.handler = "done"
    /\ net.resp1 = "#handshake"
    /\ net.sent[1] = <<"<client-hello>">>
    /\ net.sent[2] = LaterMessages
    /\ net.up["connect"] = 1
    /\ ctx.mode = "#encrypted-handshake"

(***************************************************************************)
(* C11, C12: the close-notify alert and the close event.                   *)
(***************************************************************************)

\* A warning alert record with the close-notify description.
IsCloseNotify(frag) == Len(frag) >= 7 /\ frag[1] = 21 /\ frag[7] = 0

\* A read event in which a close-notify alert of the peer was processed,
\* the handler not failing.
NotifyStep ==
    /\ call'.op = "awake"
    /\ call'.type = "read"
    /\ net'.error = blank
    /\ \E i \in (Len(net.frags) + 1)..Len(net'.frags) :
           IsCloseNotify(net'.frags[i])

\* The wait of the read handler for its close-notify to be written returns,
\* nothing failing.
NotifiedStep ==
    /\ net.stack # << >>
    /\ Last(net.stack) = "close-notify"
    /\ net'.stack # net.stack
    /\ net'.error = blank

\* A wrote event in the close-notify mode, nothing failing.
WroteNotifyStep ==
    /\ call'.op = "awake"
    /\ call'.type = "wrote"
    /\ call'.mode = "<close-notify>"
    /\ net'.error = blank

\* The wait that an event was handled under has returned: with handlers
\* waiting the innermost one left its wait (the connect handler to make its
\* second one), with none the application's wait returned.
WaitReturned ==
    IF net.stack = << >> THEN net'.woke
    ELSE \/ Len(net'.stack) < Len(net.stack)
         \/ /\ Last(net.stack) = "hello"
            /\ net'.stack = Append(Front(net.stack), "finished")

\* C11: a read event that processes a close-notify alert of the peer,
\* without failing, writes a close-notify record of its own and waits for
\* the write in the mode <close-notify>; when that wait returns a read
\* event is forwarded upward and the handler returns true (the wait it ran
\* under returns too), the mode still <close-notify>; and a wrote event in
\* the mode <close-notify> returns true.
C11_CloseNotify ==
    [][(NotifyStep =>
            /\ net'.sent = Append(net.sent, <<"<close-notify>">>)
            /\ ctx'.mode = "<close-notify>"
            /\ net'.stack = Append(net.stack, "close-notify")
            /\ net'.up = net.up)
       /\ (NotifiedStep =>
            /\ net'.up["read"] = net.up["read"] + 1
            /\ ctx'.mode = "<close-notify>"
            /\ IF Len(net.stack) = 1 THEN net'.stack = << >> /\ net'.woke
               ELSE Len(net'.stack) <= Len(net.stack) - 2)
       /\ (WroteNotifyStep => WaitReturned)]_vars

\* The close-notify of the peer was answered, the write was reported and
\* the read handler returned true to the wait of the application.
C11_Witness ==
    /\ call.op = "awake"
    /\ call.type = "wrote"
    /\ call.mode = "<close-notify>"
    /\ net.error = blank
    /\ net.woke
    /\ net.up["read"] >= 1
    /\ net.sent # << >>
    /\ Last(net.sent) = <<"<close-notify>">>
    /\ \E i \in 1..Len(net.frags) : IsCloseNotify(net.frags[i])

\* A close event was handled.
CloseStep == call'.op = "awake" /\ call'.type = "close"

\* C12 as stated: the handler of a close event forwards a close event
\* upward and closes the transport.
C12_Original ==
    [][CloseStep =>
           /\ net'.up["close"] = net.up["close"] + 1
           /\ net'.closes = net.closes + 1]_vars

\* C12: the handler of a close event forwards a close event upward and
\* returns true (the wait it ran under returns, unless the handler that
\* goes on fails); it does not close the transport.
C12_CloseEvent ==
    [][CloseStep =>
           /\ net'.up["close"] = net.up["close"] + 1
           /\ net'.closes = net.closes
           /\ (net'.error = blank => WaitReturned)]_vars

\* A close event was forwarded while a handler waited, the transport not
\* closed by tls-awake.
C12_Witness ==
    /\ call.op = "awake"
    /\ call.type = "close"
    /\ net.up["close"] = 1
    /\ net.closes = 0
    /\ net.handler = "done"
    /\ net.error = blank

(***************************************************************************)
(* C13: the level of a received alert.                                     *)
(***************************************************************************)

\* The bytes a read event has delivered that are not part of a fragment
\* parse-response returned for, after the event.
Unparsed ==
    SubSeq(net.stream, Len(Concat(net'.frags)) + 1,
           Len(net.stream) - Len(net'.wire))

\* A read event came to a whole alert record and returned for no fragment
\* from it on.
AlertStep ==
    /\ call'.op = "awake"
    /\ call'.type = "read"
    /\ Len(Unparsed) >= 7
    /\ Unparsed[1] = 21
    /\ Unparsed[5] = 2

\* The description the table gives for the codes of the alerts received.
Described(code) ==
    CASE code = 0 -> "Close notify"
      [] code = 40 ->
           "Handshake failure - no supported cipher suite available on server"
      [] code = 90 -> "User cancelled"
      [] OTHER -> "unknown"

\* C13: a read event that comes to an alert record whose first byte is
\* greater than 1 fails with the description of its second byte ("unknown"
\* for a code outside the table), the records counted and seq-num-r as the
\* fragments before it left them, and the mode and seq-num-r as the event
\* found them when it is the first record of the event; a read event fails
\* at an alert record whose first byte is 0 or 1 only with an illegal state
\* transition; and no fragment accepted is an alert with a first byte
\* greater than 1.
C13_AlertLevel ==
    [][/\ (AlertStep /\ Unparsed[6] > 1) =>
             /\ net'.error = Described(Unparsed[7])
             /\ net'.parsed = Len(net'.frags)
             /\ ctx'.seq_num_r = net'.parsed - net'.rfin
             /\ net'.frags = net.frags =>
                    /\ ctx'.mode = ctx.mode
                    /\ ctx'.seq_num_r = ctx.seq_num_r
       /\ (AlertStep /\ Unparsed[6] <= 1) =>
             net'.error = "illegal state transition"
       /\ \A i \in 1..Len(net'.frags) :
             net'.frags[i][1] = 21 => net'.frags[i][6] <= 1]_vars

\* A read event failed at a fatal alert with a code outside the table that
\* followed an accepted record in the same event.
C13_Witness ==
    /\ call.op = "awake"
    /\ call.type = "read"
    /\ net.error = "unknown"
    /\ net.frags # << >>
    /\ ctx.mode # blank
    /\ Len(ctx.data_buffer) > 7

(***************************************************************************)
(* C14: the handshake messages hashed for a finished message.              *)
(***************************************************************************)

\* The place of the finished message of `from` in the messages, 0 when it
\* is not among them.
FinishedAt(messages, from) ==
    LET at == {i \in 1..Len(messages) :
                  messages[i] = Message(from, "<finished>")}
    IN  IF at = {} THEN 0 ELSE CHOOSE i \in at : \A k \in at : i <= k

\* A read event came to a whole handshake record holding a finished
\* message and returned for no fragment from it on.
FinishedStep ==
    /\ call'.op = "awake"
    /\ call'.type = "read"
    /\ Len(Unparsed) >= 8
    /\ Unparsed[1] = 22
    /\ Unparsed[5] = 3
    /\ Unparsed[6] = 20

\* While nothing has failed the handshake messages of the session are the
\* handshake messages of the records written and received, in order,
\* without the change-cipher-spec records; and the messages the client's
\* finished was made from are those before it.
C14_Transcript ==
    net.error = blank =>
        LET exchanged == Exchange(net.log, FALSE)
            k == FinishedAt(exchanged, "client")
        IN  /\ ctx.handshake_messages = exchanged
            /\ k # 0 => ctx.verify = SubSeq(exchanged, 1, k - 1)

\* A received finished message is not refused for its verify data when
\* they are the PRF of the messages exchanged before it, and is refused
\* when they are not: with "Bad 'finished' MAC" when the read state admits
\* the message.
C14_Verify ==
    FinishedStep =>
        /\ Unparsed[7] = 1 => net'.error # "Bad 'finished' MAC"
        /\ Unparsed[7] # 1 =>
              /\ net'.error \in {"Bad 'finished' MAC",
                                 "illegal state transition"}
              /\ (/\ net'.frags = net.frags
                  /\ ctx.encrypted
                  /\ ctx.mode = "<change-cipher-spec>") =>
                     net'.error = "Bad 'finished' MAC"

\* C14: the handshake messages hashed for a finished message, sent or
\* received, are the handshake messages exchanged before it since the
\* client-hello, in order, without record headers, change-cipher-spec
\* records and the finished message itself; a received finished whose
\* content differs from the value made from them fails with
\* "Bad 'finished' MAC".
C14_FinishedTranscript == []C14_Transcript /\ [][C14_Verify]_vars

\* Both finished messages were exchanged: the client's was made from the
\* five messages before it, the server's was accepted.
C14_Witness ==
    /\ net.error = blank
    /\ Len(ctx.handshake_messages) = 7
    /\ Len(ctx.verify) = 5
    /\ ctx.handshake_messages[6] = Message("client", "<finished>")
    /\ ctx.handshake_messages[7] = Message("server", "<finished>")
    /\ ctx.mode = "#encrypted-handshake"

(***************************************************************************)
(* C15: records out of order.                                              *)
(***************************************************************************)

\* A record with a MAC: an application record, or a handshake record with
\* a finished message, its verify data and its MAC.
Protected(rec) ==
    \/ Len(rec) = 6 /\ rec[1] = 23
    \/ Len(rec) = 8 /\ rec[1] = 22 /\ rec[6] = 20

\* The sequence number the MAC of a record was made with.
MacNumber(rec) == rec[Len(rec)]

\* The whole record a read event failed at.
Refused == SubSeq(Unparsed, 1, 5 + Unparsed[5])

\* A read event came to a whole record with a MAC and returned for no
\* fragment from it on.
ProtectedStep ==
    /\ call'.op = "awake"
    /\ call'.type = "read"
    /\ Len(Unparsed) >= 5
    /\ Len(Unparsed) >= 5 + Unparsed[5]
    /\ Protected(Refused)

\* The errors of a MAC that is not the one computed.
BadMAC ==
    {"Bad application record MAC", "Bad handshake record MAC",
     "Bad 'finished' MAC"}

\* C15 as stated: a record with a MAC that was accepted before, or that
\* comes after the server's finished with a MAC made with a later sequence
\* number than the one the session has come to, is refused with a bad-MAC
\* error.
C15_Original ==
    [][(/\ ProtectedStep
        /\ \/ \E i \in 1..Len(net'.frags) : net'.frags[i] = Refused
           \/ /\ SelectSeq(net'.frags, Protected) # << >>
              /\ MacNumber(Refused) > ctx'.seq_num_r)
       => net'.error \in BadMAC]_vars

\* The fragments accepted that have a MAC were made with the sequence
\* numbers 0, 1, 2, ... in the order of their acceptance: none was accepted
\* twice, or before one made earlier.
C15_InOrder ==
    LET accepted == SelectSeq(net.frags, Protected)
    IN  \A i \in 1..Len(accepted) : MacNumber(accepted[i]) = i - 1

\* A record with a MAC is refused only with a bad-MAC error or an illegal
\* state transition; one accepted before is refused: an application record
\* with "Bad application record MAC" when the read state admits
\* application data, the finished record with an illegal state transition;
\* and an application record that is the first of its event, in a mode that
\* admits it, with the MAC of the session's sequence number is not refused.
C15_Refusal ==
    ProtectedStep =>
        /\ net'.error \in BadMAC \cup {"illegal state transition"}
        /\ (/\ Refused[1] = 23
            /\ net'.frags = net.frags
            /\ ctx.mode \in {"#encrypted-handshake", "#application"}) =>
               /\ net'.error = "Bad application record MAC"
               /\ MacNumber(Refused) # ctx.seq_num_r
        /\ (/\ Refused[1] = 22
            /\ \E i \in 1..Len(net'.frags) : net'.frags[i] = Refused) =>
               net'.error = "illegal state transition"

\* C15: records with a MAC are accepted only in the order of the sequence
\* numbers their MACs were made with, each once; a record delivered a
\* second time or before its turn is refused, with a bad-MAC error when the
\* read state admits a record of its type and with an illegal state
\* transition when it does not, as for a finished record delivered again;
\* a record delivered in its turn, in a mode that admits it, is accepted.
C15_RecordOrder == []C15_InOrder /\ [][C15_Refusal]_vars

\* The finished record and an application record were accepted, and the
\* application record, delivered again, was refused for its MAC.
C15_Witness ==
    /\ net.error = "Bad application record MAC"
    /\ SelectSeq(net.frags, Protected)
          = <<Record(22, <<20, 1, 0>>), Record(23, <<1>>)>>
    /\ ctx.data_buffer = Record(23, <<1>>)


(***************************************************************************)
(* Error construction from user data: c-error.c, Find_Error_For_Code and  *)
(* Make_Error_Object_Throws.                                               *)
(***************************************************************************)

RE_USER == 1000

\* A cell: its datatype, its spelling or text, its number.
Cell(kind, s, n) == [kind |-> kind, s |-> s, n |-> n]

Blank_Cell == Cell("blank", "", 0)

Integer_Cell(n) == Cell("integer", "", n)

Word_Cell(s) == Cell("word", s, 0)

String_Cell(s) == Cell("string", s, 0)

Object_Cell(n) == Cell("object", "", n)

\* What a read past the last variable of a context finds.
End_Cell == Cell("end", "", 0)

\* A field of the construction block that the user did not write.
Absent == Cell("absent", "", 0)

IS_BLANK(v) == v.kind = "blank"

IS_INTEGER(v) == v.kind = "integer"

IS_WORD(v) == v.kind = "word"

IS_STRING(v) == v.kind = "string"

IS_BLOCK(v) == v.kind = "block"

\* The canon of a spelling: its lower-case form.
Canon(s) ==
    CASE s = "Internal" -> "internal"
      [] s = "No-Memory" -> "no-memory"
      [] OTHER -> s

\* Reading the canon of a cell that is no word reads the bytes of another
\* payload: the result is a spelling that matches none.
VAL_WORD_CANON(v) == IF IS_WORD(v) THEN Canon(v.s) ELSE "?"

\* Field n of a context that keeps self in slot 1.
SELFISH(n) == n + 1

Field(key, var) == [key |-> key, var |-> var]

\* The categories of the catalog, one context each: self, code, type, then
\* one message per id.
Category ==
    << << Field("self", Blank_Cell), Field("code", Integer_Cell(0)),
          Field("type", String_Cell("special")),
          Field("null", String_Cell("invalid error code zero")),
          Field("halt", String_Cell("halted by user or script")) >>,
       << Field("self", Blank_Cell), Field("code", Integer_Cell(100)),
          Field("type", String_Cell("internal")),
          Field("stack-overflow", String_Cell("stack overflow")),
          Field("no-memory", String_Cell("not enough memory")) >>,
       << Field("self", Blank_Cell), Field("code", Integer_Cell(200)),
          Field("type", String_Cell("syntax error")),
          Field("invalid", String_Cell("invalid")) >> >>

\* The catalog: self, then one object per category.
Categories ==
    << Field("self", Blank_Cell), Field("special", Object_Cell(1)),
       Field("internal", Object_Cell(2)), Field("syntax", Object_Cell(3)) >>

\* The keys of an error object.
ErrorKeys == << "self", "code", "type", "id", "message", "near", "where" >>

CTX_LEN(c) == Len(c)

CTX_VAR(c, n) == IF n \in 1..Len(c) THEN c[n].var ELSE End_Cell

CTX_KEY_SPELLING(c, n) == IF n \in 1..Len(c) THEN c[n].key ELSE "?"

\* The first slot of a context whose key has the canon, or 0.
Find_Canon_In_Context(keys, canon) ==
    IF \E n \in 1..Len(keys) : Canon(keys[n]) = canon
      THEN CHOOSE n \in 1..Len(keys) :
             /\ Canon(keys[n]) = canon
             /\ \A m \in 1..(n - 1) : Canon(keys[m]) # canon
      ELSE 0

Keys(c) == [n \in 1..Len(c) |-> c[n].key]

\* The variable of that slot, or Not_Found (0 here).
Select_Canon_In_Context(c, canon) == Find_Canon_In_Context(Keys(c), canon)

Not_Found == [found |-> FALSE, message |-> End_Cell, id |-> Blank_Cell, type |-> Blank_Cell]

\* The message template of a code with the words of its category and id,
\* or Not_Found.  The test before the read is of the slot before the message's.
Find_Error_For_Code(code) ==
    LET n == code \div 100
    IN  IF SELFISH(n + 1) > CTX_LEN(Categories) THEN Not_Found
        ELSE LET category == Category[CTX_VAR(Categories, SELFISH(n + 1)).n]
                 m == code % 100
             IN  IF SELFISH(m + 2) > CTX_LEN(category) THEN Not_Found
                 ELSE [found |-> TRUE,
                       message |-> CTX_VAR(category, SELFISH(m + 3)),
                       id |-> Word_Cell(CTX_KEY_SPELLING(category, SELFISH(m + 3))),
                       type |-> Word_Cell(CTX_KEY_SPELLING(Categories,
                                                      SELFISH(n + 1)))]

\* The fields of an error object.
Vars(code, type, id, message) ==
    [code |-> code, type |-> type, id |-> id, message |-> message]

\* The validation of the fields of an error made from a block, an object or
\* a string.  A debug build stops at an assertion where a release build
\* reads on.
Make_Error_Object_Throws(ev, debug) ==
    LET Invalid == [status |-> "invalid-error", vars |-> ev]
        Stop == [status |-> "assert", vars |-> ev]
        Error(v) == [status |-> "error", vars |-> v]
        coded(found) ==
            IF ~found.found THEN Invalid
            ELSE IF found.message = End_Cell /\ debug THEN Stop
            ELSE IF /\ ~IS_BLANK(ev.id)
                    /\ \/ ~IS_WORD(ev.id)
                       \/ VAL_WORD_CANON(ev.id) # VAL_WORD_CANON(found.id)
              THEN Invalid
            ELSE IF ~IS_BLANK(ev.type) /\ ~IS_WORD(ev.type) /\ debug
              THEN Stop
            ELSE IF /\ ~IS_BLANK(ev.type)
                    /\ \/ ~IS_WORD(found.id)
                       \/ VAL_WORD_CANON(ev.type)
                            # VAL_WORD_CANON(found.type)
              THEN Invalid
            ELSE Error(Vars(ev.code, found.type, found.id, found.message))
        named(category) ==
            IF category = 0
              THEN Error([ev EXCEPT !.code = Integer_Cell(RE_USER)])
            ELSE LET context == Category[CTX_VAR(Categories, category).n]
                     code == CTX_VAR(context, SELFISH(1)).n
                     message ==
                         Select_Canon_In_Context(context,
                                                 VAL_WORD_CANON(ev.id))
                 IN  IF message = 0 THEN Invalid
                     ELSE IF ~IS_BLANK(ev.message) THEN Invalid
                     ELSE Error(
                       [ev EXCEPT
                          !.message = CTX_VAR(context, message),
                          !.code = Integer_Cell(
                              code
                              + Find_Canon_In_Context(ErrorKeys,
                                    VAL_WORD_CANON(ev.id))
                              - Find_Canon_In_Context(ErrorKeys, "type")
                              - 1)])
    IN  IF IS_INTEGER(ev.code)
          THEN IF ev.code.n < RE_USER
                 THEN IF ~IS_BLANK(ev.message) THEN Invalid
                      ELSE coded(Find_Error_For_Code(ev.code.n))
                 ELSE Error(ev)
        ELSE IF IS_WORD(ev.type) /\ IS_WORD(ev.id)
          THEN IF ~IS_BLANK(ev.code) /\ debug THEN Stop
               ELSE named(Select_Canon_In_Context(Categories,
                                                  VAL_WORD_CANON(ev.type)))
        ELSE IF ~IS_BLANK(ev.code) THEN Invalid
        ELSE IF \/ ~(IS_WORD(ev.id) \/ IS_BLANK(ev.id))
                \/ ~(IS_WORD(ev.type) \/ IS_BLANK(ev.type))
                \/ ~(\/ IS_BLOCK(ev.message)
                     \/ IS_STRING(ev.message)
                     \/ IS_BLANK(ev.message))
          THEN Invalid
        ELSE Error([ev EXCEPT !.code = Integer_Cell(RE_USER)])

\* The fields of the root error before the user's fields are set: the state
\* the string case describes, and the all-blank one.
Roots ==
    { Vars(Blank_Cell, Word_Cell("user"), Word_Cell("message"), Blank_Cell),
      Vars(Blank_Cell, Blank_Cell, Blank_Cell, Blank_Cell) }

\* The fields a block can set.  The codes are not negative and the categories
\* named have a code of 100 or more, so that no unsigned (REBCNT) sum wraps.
Codes ==
    { Integer_Cell(n) : n \in {0, 1, 2, 100, 101, 102, 150, 200, 300, 999,
                              RE_USER, 2000} }
      \cup { Absent, String_Cell("101") }

Types ==
    { Absent, Blank_Cell, Word_Cell("internal"), Word_Cell("Internal"),
      Word_Cell("syntax"),
      Word_Cell("mine"), String_Cell("internal") }

Ids ==
    { Absent, Blank_Cell, Word_Cell("stack-overflow"), Word_Cell("no-memory"),
      Word_Cell("No-Memory"), Word_Cell("invalid"), Word_Cell("mine"),
      Integer_Cell(7) }

Messages ==
    { Absent, String_Cell("not enough memory"), String_Cell("mine"),
      Cell("block", "mine", 0), Integer_Cell(7) }

\* The fields after the block has been evaluated in the copy of the root.
Given(root, block) ==
    [k \in {"code", "type", "id", "message"} |->
        IF block[k] = Absent THEN root[k] ELSE block[k]]

NoError ==
    [status |-> "none",
     vars |-> Vars(Blank_Cell, Blank_Cell, Blank_Cell, Blank_Cell)]

\* MAKE ERROR! of a block (or of a string: a block with a message only).
MakeError ==
    /\ call.op = "make-error"
    /\ call.out = NoError
    /\ \E debug \in BOOLEAN :
         call' = [call EXCEPT
                    !.debug = debug,
                    !.out = Make_Error_Object_Throws(
                                Given(call.root, call.block), debug)]
    /\ UNCHANGED <<ctx, net, rt, f>>

InitError ==
    /\ \E root \in Roots :
         \E block \in [code : Codes, type : Types, id : Ids,
                       message : Messages] :
           call = [op |-> "make-error", root |-> root, block |-> block,
                   debug |-> FALSE, out |-> NoError]
    /\ ctx = InitCtx
    /\ net = InitNet
    /\ rt = InitRt
    /\ f = InitFrame

NextError == MakeError

SpecError == InitError /\ [][NextError]_vars

(***************************************************************************)
(* C16, C17, C18                                                           *)
(***************************************************************************)

\* The entries of the catalog: the code, the category word and the id word
\* of every message.
CatalogEntries ==
    UNION { { [code |-> Category[c][2].var.n + (i - 4),
               type |-> Categories[c + 1].key,
               id |-> Category[c][i].key,
               message |-> Category[c][i].var] :
                i \in 4..Len(Category[c]) } : c \in 1..Len(Category) }

Made == call.op = "make-error" /\ call.out # NoError

OnlyCode(e) == Vars(Integer_Cell(e.code), Absent, Absent, Absent)

OnlyPair(e) == Vars(Absent, Word_Cell(e.type), Word_Cell(e.id), Absent)

IsEntry(out, e) ==
    /\ out.status = "error"
    /\ out.vars.code = Integer_Cell(e.code)
    /\ out.vars.type = Word_Cell(e.type)
    /\ out.vars.id = Word_Cell(e.id)

\* C16: for every catalog entry, the error made from a block that gives only
\* the entry's code and the error made from a block that gives only its type
\* and id have the same code, type and id: those of the entry.
C16_RoundTrip ==
    Made =>
      \A e \in CatalogEntries :
        (call.block \in {OnlyCode(e), OnlyPair(e)}) => IsEntry(call.out, e)

ExplicitCode ==
    /\ Made
    /\ IS_INTEGER(call.block.code)
    /\ call.block.code.n < RE_USER

Resolves(n) == \E e \in CatalogEntries : e.code = n

\* A field that is explicitly given equals the catalog's, case aside.
Agrees(v, catalog) ==
    \/ v \in {Absent, Blank_Cell}
    \/ v = catalog
    \/ IS_WORD(v) /\ IS_WORD(catalog) /\ Canon(v.s) = Canon(catalog.s)

AgreesWith(block, e) ==
    /\ Agrees(block.type, Word_Cell(e.type))
    /\ Agrees(block.id, Word_Cell(e.id))
    /\ Agrees(block.message, e.message)

\* C17: with an explicit code below 1000 the construction succeeds when the
\* code resolves in the catalog and every explicitly given type, id and
\* message equals the catalog's, and fails with invalid-error otherwise.
C17_ExplicitCode ==
    ExplicitCode =>
      IF \E e \in CatalogEntries :
           e.code = call.block.code.n /\ AgreesWith(call.block, e)
        THEN call.out.status = "error"
        ELSE call.out.status = "invalid-error"

\* C18: every error object returned has an integer code that is below 1000
\* and resolves in the catalog, or is 1000; with 1000 its id and type are
\* words or blank and its message is a string, a block or blank.
C18_ReturnedShape ==
    (Made /\ call.out.status = "error") =>
      LET ev == call.out.vars
      IN  /\ IS_INTEGER(ev.code)
          /\ \/ ev.code.n < RE_USER /\ Resolves(ev.code.n)
             \/ ev.code.n = RE_USER
          /\ (ev.code.n = RE_USER =>
                /\ IS_WORD(ev.id) \/ IS_BLANK(ev.id)
                /\ IS_WORD(ev.type) \/ IS_BLANK(ev.type)
                /\ \/ IS_STRING(ev.message)
                   \/ IS_BLOCK(ev.message)
                   \/ IS_BLANK(ev.message))

(***************************************************************************)
(* C20                                                                     *)
(***************************************************************************)

\* An error is raised while no trap scope is in effect.
RaisedUntrapped ==
    /\ rt.pc = "run"
    /\ rt.Saved_State = 0
    /\ rt'.pc # "run"

\* C20: an error raised while no trap scope is in effect ends in a panic: no
\* frame is dropped, no error is stored in any scope's state and there is no
\* jump; the rest of the interpreter state is as it was.
C20_PanicWithoutScope ==
    [][RaisedUntrapped =>
         /\ rt' = [rt EXCEPT !.pc = "panicked"]
         /\ rt'.FS_TOP = rt.FS_TOP
         /\ rt'.dropped = << >>
         /\ rt'.states = rt.states]_vars

\* The panic happened with frames on the stack.
C20_Witness ==
    /\ rt.pc = "panicked"
    /\ rt.Saved_State = 0
    /\ rt.FS_TOP > 0

(***************************************************************************)
(* Security policies: c-error.c, Security_Policy.                          *)
(***************************************************************************)

\* The most (pattern, tuple) pairs in a block of policies.
MaxPairs == 2

\* A policy tuple, a file or url of the given characters, a policy word.
Tuple_Cell(n) == [kind |-> "tuple", n |-> n, path |-> << >>]

File_Cell(path) == [kind |-> "file", n |-> 0, path |-> path]

Policy_Word == [kind |-> "word", n |-> 0, path |-> << >>]

\* No value: the class is not in the policies, or no name was passed.
No_Cell == [kind |-> "none", n |-> 0, path |-> << >>]

Block_Cell(array) == [kind |-> "block", n |-> 0, array |-> array]

IS_TUPLE(v) == v.kind = "tuple"

ANY_BINSTR(v) == v.kind = "file"

\* The first path is a subpath of the second: its characters begin it.
Match_Sub_Path(s1, s2) ==
    /\ Len(s1) <= Len(s2)
    /\ SubSeq(s2, 1, Len(s1)) = s1

\* The scan of a block of policies from position at, with the length and the
\* flags kept so far (0: none).  The length kept is the length of the name.
RECURSIVE Scan_Policies(_, _, _, _, _)
Scan_Policies(array, at, len, flags, name) ==
    IF at > Len(array) THEN [status |-> "scanned", flags |-> flags]
    ELSE IF at + 1 > Len(array) \/ ~IS_TUPLE(array[at + 1])
      THEN [status |-> "security-error", flags |-> 0]
    ELSE IF IS_WORD(array[at])
      THEN Scan_Policies(array, at + 2, len,
                         IF len = 0 THEN array[at + 1].n ELSE flags, name)
    ELSE IF ANY_BINSTR(array[at]) /\ name # No_Cell
      THEN IF /\ Match_Sub_Path(array[at].path, name.path)
              /\ Len(name.path) >= len
             THEN Scan_Policies(array, at + 2, Len(name.path),
                                array[at + 1].n, name)
             ELSE Scan_Policies(array, at + 2, len, flags, name)
    ELSE [status |-> "security-error", flags |-> 0]

\* The flags of a class's policy for a name, or the error raised.
Security_Policy(policy, name) ==
    LET scanned(result) ==
            IF result.status = "scanned"
              THEN IF result.flags = 0
                     THEN [status |-> "security", flags |-> 0]
                     ELSE [status |-> "flags", flags |-> result.flags]
              ELSE result
    IN  IF policy = No_Cell THEN [status |-> "security-error", flags |-> 0]
        ELSE IF IS_TUPLE(policy) THEN [status |-> "flags", flags |-> policy.n]
        ELSE IF policy.kind # "block"
          THEN [status |-> "security-error", flags |-> 0]
        ELSE scanned(Scan_Policies(policy.array, 1, 0, 0, name))

\* The values of a block of policies, and the names asked about.
PolicyValues ==
    { Policy_Word, Tuple_Cell(1), Tuple_Cell(2),
      File_Cell(<<"a">>), File_Cell(<<"a", "b">>), File_Cell(<<"b">>) }

Names == { No_Cell, File_Cell(<<"a", "b", "c">>), File_Cell(<<"b">>) }

Arrays == UNION { [1..n -> PolicyValues] : n \in 0..(2 * MaxPairs) }

Policies ==
    { No_Cell, Tuple_Cell(1), File_Cell(<<"a">>) }
      \cup { Block_Cell(array) : array \in Arrays }

NoFlags == [status |-> "none", flags |-> 0]

\* A check of a name against the policy of a class.
CheckPolicy ==
    /\ call.op = "security"
    /\ call.out = NoFlags
    /\ call' = [call EXCEPT
                  !.out = Security_Policy(call.policy, call.name)]
    /\ UNCHANGED <<ctx, net, rt, f>>

InitSecurity ==
    /\ \E policy \in Policies, name \in Names :
         call = [op |-> "security", policy |-> policy, name |-> name,
                 out |-> NoFlags]
    /\ ctx = InitCtx
    /\ net = InitNet
    /\ rt = InitRt
    /\ f = InitFrame

NextSecurity == CheckPolicy

SpecSecurity == InitSecurity /\ [][NextSecurity]_vars

(***************************************************************************)
(* C19                                                                     *)
(***************************************************************************)

\* The policy is a list of (pattern, tuple) pairs and a name was checked.
PairsChecked ==
    /\ call.op = "security"
    /\ call.out # NoFlags
    /\ call.policy.kind = "block"
    /\ call.name # No_Cell
    /\ Len(call.policy.array) % 2 = 0
    /\ \A i \in 1..Len(call.policy.array) :
         IF i % 2 = 0 THEN IS_TUPLE(call.policy.array[i])
         ELSE IS_WORD(call.policy.array[i]) \/ ANY_BINSTR(call.policy.array[i])

\* The positions of the string patterns that begin the name.
Prefixes(array, name) ==
    { i \in 1..Len(array) :
        /\ i % 2 = 1
        /\ ANY_BINSTR(array[i])
        /\ Match_Sub_Path(array[i].path, name.path) }

Longest(array, name) ==
    { i \in Prefixes(array, name) :
        \A j \in Prefixes(array, name) :
          Len(array[j].path) <= Len(array[i].path) }

Defaults(array) == { i \in 1..Len(array) : i % 2 = 1 /\ IS_WORD(array[i]) }

\* C19: with a list of (pattern, tuple) pairs the result is the tuple of a
\* longest string pattern that begins the name, whatever the order of the
\* pairs; the tuple of a word only when no string pattern begins the name;
\* and the security error when there is neither.
C19_LongestPrefix ==
    PairsChecked =>
      LET array == call.policy.array
          wins(among) ==
              /\ call.out.status = "flags"
              /\ \E i \in among : call.out.flags = array[i + 1].n
      IN  IF Prefixes(array, call.name) # {}
            THEN wins(Longest(array, call.name))
          ELSE IF Defaults(array) # {} THEN wins(Defaults(array))
          ELSE call.out.status = "security"

(***************************************************************************)
(* The step counter and the signals: c-eval.c, Do_Core at do_next.         *)
(***************************************************************************)

\* The most evaluation steps between two servicings, and the most
\* expressions of a run.
MaxDose == 3

MaxExprs == 4

Signals == {"recycle", "escape"}

\* Do_Signals_Throws: the signals are taken; a counter that ran out starts
\* again at the dose, another one is left or started again.
Do_Signals_Throws(c) ==
    { [c EXCEPT !.Eval_Signals = {}, !.Eval_Count = count] :
        count \in IF c.Eval_Count = 0 THEN {c.Eval_Dose}
                  ELSE {c.Eval_Count, c.Eval_Dose} }

\* The test before the servicing as the counter and the signals alone
\* decide it.
Signals_Due_Only(c) == c.Eval_Count = 0 \/ c.Eval_Signals # {}

\* The test before the servicing, made after the decrement:
\* --Eval_Count == 0 || Eval_Signals || TRUE.
Signals_Due(c) == c.Eval_Count = 0 \/ c.Eval_Signals # {} \/ TRUE

\* do_next: the start of a new expression.
do_next ==
    /\ call.op = "do"
    /\ call.exprs < MaxExprs
    /\ LET c == [call EXCEPT !.Eval_Count = @ - 1, !.exprs = @ + 1,
                             !.at = "do_next"]
           seen == [count |-> c.Eval_Count, signals |-> c.Eval_Signals]
       IN  IF Signals_Due(c)
             THEN \E d \in Do_Signals_Throws(c) :
                    call' = [d EXCEPT !.serviced = TRUE, !.seen = seen]
             ELSE call' = [c EXCEPT !.serviced = FALSE, !.seen = seen]
    /\ UNCHANGED <<ctx, net, rt, f>>

\* reevaluate: EVAL jumps past the decrement and the servicing.
reevaluate ==
    /\ call.op = "do"
    /\ call.at = "do_next"
    /\ call' = [call EXCEPT !.at = "reevaluate", !.serviced = FALSE]
    /\ UNCHANGED <<ctx, net, rt, f>>

\* A signal is raised from outside the evaluator.
SET_SIGNAL ==
    /\ call.op = "do"
    /\ \E s \in Signals \ call.Eval_Signals :
         call' = [call EXCEPT !.Eval_Signals = @ \cup {s}]
    /\ UNCHANGED <<ctx, net, rt, f>>

InitDo ==
    /\ \E dose \in 1..MaxDose, count \in 1..MaxDose :
         /\ count <= dose
         /\ call = [op |-> "do", Eval_Dose |-> dose, Eval_Count |-> count,
                    Eval_Signals |-> {}, exprs |-> 0, at |-> "entry",
                    serviced |-> FALSE,
                    seen |-> [count |-> count, signals |-> {}]]
    /\ ctx = InitCtx
    /\ net = InitNet
    /\ rt = InitRt
    /\ f = InitFrame

NextDo ==
    \/ do_next
    \/ reevaluate
    \/ SET_SIGNAL

SpecDo == InitDo /\ [][NextDo]_vars

(***************************************************************************)
(* C21                                                                     *)
(***************************************************************************)

\* C21: at the start of an expression the servicing step runs exactly when
\* the decremented counter is zero or a signal is raised.
C21_Servicing ==
    (call.op = "do" /\ call.at = "do_next") =>
      (call.serviced <=> (call.seen.count = 0 \/ call.seen.signals # {}))

(***************************************************************************)
(* The near field of an error: c-error.c, Make_Error_Core.                 *)
(***************************************************************************)

\* The most items of a source array.
MaxItems == 12

\* The words pushed between the items: `...` and `??`.  An item is its
\* position in the array, from 1.
ellipsis == 0

marker == -1

\* The loop over the items from the 0-based position item: at most 6 are
\* pushed, the marker after the one that makes the count index - start.
RECURSIVE Push_Near(_, _, _, _, _, _)
Push_Near(len, index, start, item, count, stack) ==
    IF item < len /\ count < 6
      THEN LET pushed == Append(stack, item + 1)
           IN  Push_Near(len, index, start, item + 1, count + 1,
                         IF count + 1 = index - start
                           THEN Append(pushed, marker) ELSE pushed)
      ELSE IF item < len THEN Append(stack, ellipsis) ELSE stack

\* The block stored in the near field for an array of len items and the
\* frame's index.
Nearest(len, index) ==
    IF index - 3 < 0
      THEN Push_Near(len, index, 0, 0, 0, <<ellipsis>>)
      ELSE Push_Near(len, index, index - 3, index - 3, 0, << >>)

\* Make_Error_Core fills the near field from the running frame, which has
\* fetched at least one item of its array.
Make_Error_Core ==
    /\ call.op = "near"
    /\ ~call.made
    /\ call' = [call EXCEPT !.made = TRUE,
                            !.nearest = Nearest(call.len, call.index)]
    /\ UNCHANGED <<ctx, net, rt, f>>

InitNear ==
    /\ \E len \in 1..MaxItems :
         \E index \in 1..len :
           call = [op |-> "near", len |-> len, index |-> index,
                   made |-> FALSE, nearest |-> << >>]
    /\ ctx = InitCtx
    /\ net = InitNet
    /\ rt = InitRt
    /\ f = InitFrame

NextNear == Make_Error_Core

SpecNear == InitNear /\ [][NextNear]_vars

(***************************************************************************)
(* C22                                                                     *)
(***************************************************************************)

NearMade == call.op = "near" /\ call.made

\* The 0-based position the window starts at, and the items in it.
WindowStart == IF call.index - 3 < 0 THEN 0 ELSE call.index - 3

WindowItems ==
    { i \in 1..call.len : i > WindowStart /\ i <= WindowStart + 6 }

Places(s, v) == { i \in 1..Len(s) : s[i] = v }

\* C22: the near field holds the items of the window (at most 6, from 3
\* before the position) in order, an ellipsis at its head exactly when items
\* before the window are left out and at its tail exactly when items after
\* it are, and the marker once, directly after the item before the position.
C22_Near ==
    NearMade =>
      LET s == call.nearest
          items == [i \in 1..Len(s) |-> s[i]]
          kept == { s[i] : i \in 1..Len(s) } \ {ellipsis, marker}
      IN  /\ kept = WindowItems
          /\ Cardinality(kept) <= 6
          /\ \A i, j \in 1..Len(s) :
               (i < j /\ s[i] > 0 /\ s[j] > 0) => s[i] < s[j]
          /\ (Len(s) > 0 /\ s[1] = ellipsis) <=> WindowStart > 0
          /\ (Len(s) > 0 /\ s[Len(s)] = ellipsis /\ kept # {})
               <=> WindowStart + 6 < call.len
          /\ Cardinality(Places(s, marker)) = 1
          /\ \A i \in Places(s, marker) : i > 1 /\ s[i - 1] = call.index

(***************************************************************************)
(* The build tools: make/tools/common.r, to-c-name and binary-to-c.        *)
(***************************************************************************)

\* The most characters of a value given to to-c-name.
MaxChars == 3

\* The characters of an identifier of C.
c_chars ==
    { "a", "b", "c", "d", "e", "f", "g", "h", "i", "j", "k", "l",
      "m", "n", "o", "p", "q", "r", "s", "t", "u", "v", "w", "x",
      "y", "z" }
      \cup { "A", "B", "C", "D", "E", "F", "G", "H", "I", "J", "K",
             "L", "M", "N", "O", "P", "Q", "R", "S", "T", "U", "V",
             "W", "X", "Y", "Z" }
      \cup { "0", "1", "2", "3", "4", "5", "6", "7", "8", "9" }
      \cup {"_"}

space == " "

\* A text is the sequence of its characters.
RECURSIVE replace_all(_, _, _)
replace_all(string, reb, c) ==
    IF string = << >> THEN << >>
    ELSE (IF Head(string) = reb THEN c ELSE <<Head(string)>>)
           \o replace_all(Tail(string), reb, c)

\* The singular symbols, and the names they get.
singulars ==
    { <<".", ".", ".">>, <<"-">>, <<"?">>, <<"*">>, <<".">>, <<"!">>,
      <<"+">>, <<"~">>, <<"|">> }

singular(s) ==
    CASE s = <<".", ".", ".">> -> <<"e", "l", "l", "i", "p", "s", "i", "s">>
      [] s = <<"-">> -> <<"h", "y", "p", "h", "e", "n">>
      [] s = <<"?">> -> <<"q">>
      [] s = <<"*">> -> <<"a", "s", "t", "e", "r", "i", "s", "k">>
      [] s = <<".">> -> <<"p", "e", "r", "i", "o", "d">>
      [] s = <<"!">> ->
           <<"e", "x", "c", "l", "a", "m", "a", "t", "i", "o", "n">>
      [] s = <<"+">> -> <<"p", "l", "u", "s">>
      [] s = <<"~">> -> <<"t", "i", "l", "d", "e">>
      [] s = <<"|">> -> <<"b", "a", "r">>

\* The shorthands without the one of the bar.
shorthands_unbarred ==
    << <<"'", << >> >>, <<"-", <<"_">> >>, <<"*", <<"_", "p">> >>,
       <<".", <<"_">> >>, <<"?", <<"_", "q">> >>, <<"!", <<"_", "x">> >>,
       <<"+", <<"_", "a">> >>, <<"~", <<"_", "t">> >> >>

\* The shorthands of the symbols inside a longer word, in the order they
\* are replaced.
shorthands ==
    << <<"'", << >> >>, <<"-", <<"_">> >>, <<"*", <<"_", "p">> >>,
       <<".", <<"_">> >>, <<"?", <<"_", "q">> >>, <<"!", <<"_", "x">> >>,
       <<"+", <<"_", "a">> >>, <<"~", <<"_", "t">> >>,
       <<"|", <<"_", "b">> >> >>

RECURSIVE for_each_shorthand(_, _)
for_each_shorthand(string, at) ==
    IF at > Len(shorthands) THEN string
    ELSE for_each_shorthand(
           replace_all(string, shorthands[at][1], shorthands[at][2]), at + 1)

\* The characters up to the first space are all characters of C.
RECURSIVE legitimate(_)
legitimate(string) ==
    \/ string = << >>
    \/ Head(string) = space
    \/ Head(string) \in c_chars /\ legitimate(Tail(string))

\* charset [#"A" - #"Z"]
capitals ==
    { "A", "B", "C", "D", "E", "F", "G", "H", "I", "J", "K", "L",
      "M", "N", "O", "P", "Q", "R", "S", "T", "U", "V", "W", "X",
      "Y", "Z" }

\* to-c-name of a text, with the scope word: the name, or the failure.
to_c_name(value, word) ==
    LET Named(string) == [status |-> "ok", string |-> string]
        Failed(why) == [status |-> why, string |-> << >>]
        scoped(string) ==
            \* string/1 is a character and "_" a text: they never compare
            \* equal, whatever the character.
            IF [type |-> "char", of |-> string[1]]
                 # [type |-> "text", of |-> "_"]
              THEN Named(string)
            ELSE IF word = "global" THEN Failed("reserved")
            ELSE IF word = "local"
              THEN IF Len(value) >= 2 /\ value[2] \in capitals
                     THEN Failed("reserved") ELSE Named(string)
            ELSE Failed("scope")
        checked(string) ==
            IF string = << >> THEN Failed("empty")
            ELSE IF ~legitimate(string) THEN Failed("non-alphanumeric")
            ELSE scoped(string)
    IN  checked(IF value \in singulars THEN singular(value)
                ELSE for_each_shorthand(value, 1))

\* The characters of the values: a letter of each case, a digit and the
\* symbols that have a shorthand, but for the asterisk.
ValueChars == {"a", "Z", "7", "'", "-", ".", "?", "!", "+", "~", "|"}

NameValues == UNION { [1..n -> ValueChars] : n \in 1..MaxChars }

\* to-c-name of the value, and then to-c-name of the name it gave.
ToCName ==
    /\ call.op = "to-c-name"
    /\ call.status = "ok"
    /\ call.applied < 2
    /\ LET name == to_c_name(call.string, call.word)
       IN  call' = [call EXCEPT !.applied = @ + 1,
                                !.status = name.status,
                                !.string = name.string,
                                !.was = call.string]
    /\ UNCHANGED <<ctx, net, rt, f>>

InitName ==
    /\ \E value \in NameValues, word \in {"global", "local"} :
         call = [op |-> "to-c-name", value |-> value, word |-> word,
                 string |-> value, was |-> << >>, applied |-> 0,
                 status |-> "ok"]
    /\ ctx = InitCtx
    /\ net = InitNet
    /\ rt = InitRt
    /\ f = InitFrame

NextName == ToCName

SpecName == InitName /\ [][NextName]_vars

(***************************************************************************)
(* C23                                                                     *)
(***************************************************************************)

Range_of(s) == { s[i] : i \in 1..Len(s) }

\* to-c-name gave a non-empty name of letters, digits and underscores, and
\* gave it again when applied to it.
Transliterated ==
    /\ call.status = "ok"
    /\ call.string # << >>
    /\ Range_of(call.string) \subseteq c_chars
    /\ call.applied = 2 => call.string = call.was

MaxBytes == 9

Bytes == {10, 245}

newline == "\n"

\* enbase/base 16 of a byte: its two hexadecimal digits.
digits16 ==
    << "0", "1", "2", "3", "4", "5", "6", "7", "8", "9", "A", "B", "C", "D",
       "E", "F" >>

enbase16(byte) == << digits16[(byte \div 16) + 1], digits16[(byte % 16) + 1] >>

RECURSIVE hexes(_)
hexes(part) ==
    IF part = << >> THEN << >>
    ELSE <<"0", "x">> \o enbase16(Head(part)) \o <<",", space>>
           \o hexes(Tail(part))

take_last(out) == SubSeq(out, 1, Len(out) - 1)

\* A group of bytes with the comma after its last byte kept.
append_group_comma(out, part, tail) ==
    Append(take_last(out \o hexes(part)), newline)

\* One pass of the loop: the hexes of a group of bytes, less the last space
\* and, at the tail of the data, less the last comma, and a newline.
append_group(out, part, tail) ==
    LET spaced == take_last(out \o hexes(part))
    IN  Append(IF tail THEN take_last(spaced) ELSE spaced, newline)

RECURSIVE while_not_tail(_, _)
while_not_tail(out, data) ==
    IF data = << >> THEN out
    ELSE LET n == IF Len(data) < 8 THEN Len(data) ELSE 8
             rest == SubSeq(data, n + 1, Len(data))
         IN  while_not_tail(
               append_group(out, SubSeq(data, 1, n), rest = << >>), rest)

comma_count(out) == Cardinality({ i \in 1..Len(out) : out[i] = "," })

\* binary-to-c of the data: the text, or the failure of the sanity check.
binary_to_c(data) ==
    LET checked(out) ==
            IF comma_count(out) + 1 = Len(data)
              THEN [status |-> "ok", out |-> out]
              ELSE [status |-> "assert", out |-> out]
    IN  checked(while_not_tail(<< >>, data))

BinaryToC ==
    /\ call.op = "binary-to-c"
    /\ call.status = "none"
    /\ LET text == binary_to_c(call.data)
       IN  call' = [call EXCEPT !.status = text.status, !.out = text.out]
    /\ UNCHANGED <<ctx, net, rt, f>>

InitBinary ==
    /\ \E data \in UNION { [1..n -> Bytes] : n \in 0..MaxBytes } :
         call = [op |-> "binary-to-c", data |-> data, status |-> "none",
                 out |-> << >>]
    /\ ctx = InitCtx
    /\ net = InitNet
    /\ rt = InitRt
    /\ f = InitFrame

NextBinary == BinaryToC

SpecBinary == InitBinary /\ [][NextBinary]_vars

(***************************************************************************)
(* C24                                                                     *)
(***************************************************************************)

Digit16(ch) == (CHOOSE i \in 1..16 : digits16[i] = ch) - 1

\* The bytes of the 0xHH pairs of a text, in order.
RECURSIVE ReadBack(_)
ReadBack(out) ==
    IF Len(out) < 4 THEN << >>
    ELSE IF out[1] = "0" /\ out[2] = "x"
      THEN <<16 * Digit16(out[3]) + Digit16(out[4])>>
             \o ReadBack(SubSeq(out, 5, Len(out)))
    ELSE ReadBack(Tail(out))

\* The entries of the line that position i of a text is on.
EntriesOnLine(out, i) ==
    Cardinality({ j \in 1..Len(out) :
                    /\ out[j] = "x"
                    /\ \A k \in 1..Len(out) :
                         (out[k] = newline) => ((k < i) <=> (k < j)) })

Rendered ==
    /\ call.status = "ok"
    /\ comma_count(call.out) = Len(call.data) - 1
    /\ ReadBack(call.out) = call.data
    /\ \A i \in 1..Len(call.out) : EntriesOnLine(call.out, i) <= 8

BinaryDone == call.op = "binary-to-c" /\ call.status # "none"

\* The claim as stated, the empty buffer included.
C24_Original == BinaryDone => Rendered

\* C24: for every buffer that is not empty, of a length that is or is not a
\* multiple of 8, binary-to-c completes, its text has length - 1 commas, at
\* most 8 entries on a line, and its 0xHH pairs read back are the buffer;
\* for the empty buffer the sanity check fails.
C24_RoundTrip ==
    BinaryDone =>
      IF call.data = << >> THEN call.status = "assert" ELSE Rendered

\* A buffer of a full line and one more byte was rendered.
C24_Witness ==
    /\ BinaryDone
    /\ Len(call.data) = 9
    /\ call.status = "ok"
    /\ comma_count(call.out) = 8

(***************************************************************************)
(* The flag words: unnamed/part_000, FLAGIT_LEFT to FLAGUINT16_RIGHT.      *)
(***************************************************************************)

\* A word of uintptr_t is the set of the bits set in it, bit 0 the least
\* significant.  A value cast to a word:
Word_Of(val) == { i \in 0..15 : (val \div (2 ^ i)) % 2 = 1 }

\* word << n in a word of bits bits: what is shifted out is lost.
Shift_Left(word, n, bits) == { b + n : b \in word } \cap (0..(bits - 1))

Shift_Right(word, n) == { b - n : b \in { c \in word : c >= n } }

\* The byte of a word that has significance k (0: the least).
RECURSIVE Byte_Sum(_, _, _)
Byte_Sum(word, k, j) ==
    IF j > 7 THEN 0
    ELSE (IF 8 * k + j \in word THEN 2 ^ j ELSE 0) + Byte_Sum(word, k, j + 1)

\* The bytes of a word in memory, from the lowest address: the most
\* significant first on a big-endian host, the least on a little-endian.
In_Memory(word, endian, bits) ==
    [i \in 1..(bits \div 8) |->
        Byte_Sum(word,
                 IF endian = "big" THEN (bits \div 8) - i ELSE i - 1, 0)]

\* FLAGIT_LEFT for a little-endian host as a plain shift from the right.
FLAGIT_LEFT_unflipped(endian, bits, n) ==
    IF endian = "big" THEN Shift_Left({0}, bits - n - 1, bits)
    ELSE Shift_Left({0}, n, bits)

FLAGIT_LEFT(endian, bits, n) ==
    IF endian = "big" THEN Shift_Left({0}, bits - n - 1, bits)
    ELSE Shift_Left({0}, 7 + (n \div 8) * 8 - (n % 8), bits)

FLAGBYTE_FIRST(endian, bits, val) ==
    IF endian = "big" THEN Shift_Left(Word_Of(val), bits - 8, bits)
    ELSE Word_Of(val)

FLAGBYTE_RIGHT(endian, bits, val) ==
    IF endian = "big" THEN Word_Of(val)
    ELSE Shift_Left(Word_Of(val), bits - 8, bits)

FLAGBYTE_MID(endian, bits, val) ==
    IF endian = "big" THEN Shift_Left(Word_Of(val), 8, bits)
    ELSE Shift_Left(Word_Of(val), bits - 16, bits)

FLAGUINT16_RIGHT(endian, bits, val) ==
    IF endian = "big" THEN Word_Of(val)
    ELSE Shift_Left(Word_Of(val), bits - 16, bits)

RIGHT_16_BITS(endian, bits, flags) ==
    IF endian = "big" THEN flags \cap (0..15)
    ELSE Shift_Right(flags, bits - 16)

\* The macro named, for the host and the argument.
Flag_Word(macro, endian, bits, arg) ==
    CASE macro = "FLAGIT_LEFT" -> FLAGIT_LEFT(endian, bits, arg)
      [] macro = "FLAGBYTE_FIRST" -> FLAGBYTE_FIRST(endian, bits, arg)
      [] macro = "FLAGBYTE_RIGHT" -> FLAGBYTE_RIGHT(endian, bits, arg)
      [] macro = "FLAGBYTE_MID" -> FLAGBYTE_MID(endian, bits, arg)
      [] macro = "FLAGUINT16_RIGHT" -> FLAGUINT16_RIGHT(endian, bits, arg)

Flag_Bytes == {0, 1, 90, 128, 255}

\* The arguments of the macros: every bit of the word, bytes and 16-bit
\* values with different bytes in them.
Flag_Args(macro, bits) ==
    CASE macro = "FLAGIT_LEFT" -> 0..(bits - 1)
      [] macro = "FLAGUINT16_RIGHT" ->
           {0, 1, 255, 256, 4660, 32768, 65535} \cup Flag_Bytes
      [] OTHER -> Flag_Bytes

Flag_Macros ==
    { "FLAGIT_LEFT", "FLAGBYTE_FIRST", "FLAGBYTE_RIGHT", "FLAGBYTE_MID",
      "FLAGUINT16_RIGHT" }

\* The word is built on a host of each kind and stored.
Store_Flags ==
    /\ call.op = "flags"
    /\ call.big = << >>
    /\ LET big == Flag_Word(call.macro, "big", call.bits, call.arg)
           little == Flag_Word(call.macro, "little", call.bits, call.arg)
       IN  call' = [call EXCEPT
                      !.big = In_Memory(big, "big", call.bits),
                      !.little = In_Memory(little, "little", call.bits),
                      !.right16 =
                          << RIGHT_16_BITS("big", call.bits, big),
                             RIGHT_16_BITS("little", call.bits, little) >>]
    /\ UNCHANGED <<ctx, net, rt, f>>

InitFlags ==
    /\ \E bits \in {32, 64}, macro \in Flag_Macros :
         \E arg \in Flag_Args(macro, bits) :
           call = [op |-> "flags", bits |-> bits, macro |-> macro,
                   arg |-> arg, big |-> << >>, little |-> << >>,
                   right16 |-> << >>]
    /\ ctx = InitCtx
    /\ net = InitNet
    /\ rt = InitRt
    /\ f = InitFrame

NextFlags == Store_Flags

SpecFlags == InitFlags /\ [][NextFlags]_vars

(***************************************************************************)
(* C25                                                                     *)
(***************************************************************************)

FlagsStored == call.op = "flags" /\ call.big # << >>

\* The claim as stated: the bytes in memory are the same on both hosts for
\* all five macros.
C25_Original == FlagsStored => call.big = call.little

\* C25: the words of FLAGIT_LEFT, FLAGBYTE_FIRST, FLAGBYTE_RIGHT and
\* FLAGBYTE_MID have the same bytes in memory on both hosts; the word of
\* FLAGUINT16_RIGHT has the two bytes of its value in the last two bytes of
\* memory in the order of the host, all other bytes zero, and RIGHT_16_BITS
\* gives the value back on both.
C25_ByteLayout ==
    FlagsStored =>
      IF call.macro # "FLAGUINT16_RIGHT" THEN call.big = call.little
      ELSE LET size == call.bits \div 8
               hi == call.arg \div 256
               lo == call.arg % 256
           IN  /\ call.big = [i \in 1..size |->
                                IF i = size - 1 THEN hi
                                ELSE IF i = size THEN lo ELSE 0]
               /\ call.little = [i \in 1..size |->
                                   IF i = size - 1 THEN lo
                                   ELSE IF i = size THEN hi ELSE 0]
               /\ call.right16 = <<Word_Of(call.arg), Word_Of(call.arg)>>

\* The flag of a bit inside the second byte was stored: bit 10 from the
\* left is bit 2 from the left of the byte at offset 1.
C25_Witness ==
    /\ FlagsStored
    /\ call.macro = "FLAGIT_LEFT"
    /\ call.arg = 10
    /\ call.bits = 64
    /\ call.little[2] = 32
    /\ call.big[2] = 32

(***************************************************************************)
(* The ASN.1 decoder: prot-tls.r, parse-asn.                               *)
(***************************************************************************)

\* The most bytes of an encoding, and the bytes it is made of: the
\* constructed sequence, integers and sizes.
MaxEncoding == 6

EncodingBytes == {48, 0, 1, 2, 3, 4}

\* to-integer/unsigned of the bytes of a long-form size.
RECURSIVE asn_integer(_)
asn_integer(bytes) ==
    IF bytes = << >> THEN 0
    ELSE 256 * asn_integer(SubSeq(bytes, 1, Len(bytes) - 1))
           + bytes[Len(bytes)]

\* copy/part of a series from a position: as many bytes as there are.
copy_part(data, at, size) ==
    SubSeq(data, at, IF at + size - 1 > Len(data) THEN Len(data)
                     ELSE at + size - 1)

\* A node kept: the tag, whether constructed, the index, the size, the value
\* and, of a constructed node, the nodes of its value.
Node(tag, constructed, index, size, val, nodes) ==
    [tag |-> tag, constructed |-> constructed, index |-> index,
     size |-> size, val |-> val, nodes |-> nodes]

\* The index counted from 0.
asn_index_offset(data_start, at) == at - data_start

\* index: does [1 + offset-of data-start data], for the position at of the
\* series and the position data-start that the call was given.
asn_index(data_start, at) == 1 + (at - data_start)

\* The loop of parse-asn over the bytes from position at, in the mode and
\* with the class, tag and size of s, with the nodes kept so far.  A nested
\* call is given a copy of the value, at its head.
RECURSIVE asn_next(_, _, _, _)
asn_next(data, at, s, out) ==
    IF at > Len(data) THEN out
    ELSE LET byte == data[at]
         IN  CASE s.mode = "type" ->
                    asn_next(data, at + 1,
                      [s EXCEPT
                         !.mode = "size",
                         !.constructed = (byte \div 32) % 2 = 1,
                         !.class = byte \div 64,
                         !.tag = CASE byte \div 64 = 0 -> byte % 32
                                   [] byte \div 64 = 2 -> -1
                                   [] OTHER -> s.tag,
                         !.val = IF byte \div 64 = 2 THEN byte % 32
                                 ELSE s.val], out)
               [] s.mode = "size" ->
                    LET long == byte \div 128 = 1
                        old == byte % 128
                        size == IF long
                                  THEN asn_integer(
                                         copy_part(data, at + 1, old))
                                  ELSE old
                        here == IF long THEN at + old ELSE at
                    IN  IF size = 0
                          THEN asn_next(data, here + 1,
                                 [s EXCEPT !.mode = "type", !.size = 0],
                                 Append(out, Node(s.tag, s.constructed,
                                                  asn_index(1, here), 0,
                                                  << >>, << >>)))
                          ELSE asn_next(data, here + 1,
                                 [s EXCEPT !.mode = "value", !.size = size],
                                 out)
               [] s.mode = "value" ->
                    LET val == copy_part(data, at, s.size)
                        kept ==
                          CASE s.class = 0 ->
                                 Append(out,
                                   Node(s.tag, s.constructed, asn_index(1, at),
                                        s.size, val,
                                        IF s.constructed
                                          THEN asn_next(val, 1,
                                                 [mode |-> "type",
                                                  class |-> -1, tag |-> -1,
                                                  constructed |-> FALSE,
                                                  size |-> 0, val |-> 0],
                                                 << >>)
                                          ELSE << >>))
                            [] s.class = 2 ->
                                 Append(out, Node(-1, FALSE, 0, s.size,
                                                  <<s.val>>, << >>))
                            [] OTHER -> out
                    IN  asn_next(data, at + s.size,
                                 [s EXCEPT !.mode = "type"], kept)

\* parse-asn of a binary.
parse_asn(data) ==
    asn_next(data, 1,
             [mode |-> "type", class |-> -1, tag |-> -1,
              constructed |-> FALSE, size |-> 0, val |-> 0], << >>)

ParseAsn ==
    /\ call.op = "parse-asn"
    /\ ~call.parsed
    /\ call' = [call EXCEPT !.parsed = TRUE, !.out = parse_asn(call.data)]
    /\ UNCHANGED <<ctx, net, rt, f>>

InitAsn ==
    /\ \E data \in UNION { [1..n -> EncodingBytes] : n \in 0..MaxEncoding } :
         call = [op |-> "parse-asn", data |-> data, parsed |-> FALSE,
                 out |-> << >>]
    /\ ctx = InitCtx
    /\ net = InitNet
    /\ rt = InitRt
    /\ f = InitFrame

NextAsn == ParseAsn

SpecAsn == InitAsn /\ [][NextAsn]_vars

(***************************************************************************)
(* C26                                                                     *)
(***************************************************************************)

AsnParsed == call.op = "parse-asn" /\ call.parsed

\* The value of a node is found in a binary at the node's index plus base.
RECURSIVE ValuesAt(_, _, _, _)
ValuesAt(nodes, binary, base, nested) ==
    \A i \in 1..Len(nodes) :
      LET node == nodes[i]
      IN  /\ node.tag # -1 =>
                /\ node.index >= 1
                /\ node.val = copy_part(binary, base + node.index,
                                        Len(node.val))
          /\ ValuesAt(node.nodes, binary,
                      IF nested THEN base + node.index - 1 ELSE base, nested)

\* The claim as stated: at every depth the index of a node is its position
\* in the binary given to the outermost call.
C26_Original == AsnParsed => ValuesAt(call.out, call.data, 0, FALSE)

\* C26: the index of a node is its position in the binary given to the call
\* of parse-asn that decoded it: for a node inside a constructed node, the
\* position from the start of that node's content, so that its position in
\* the outermost binary is the sum of the indexes on the way to it, less one
\* for each enclosing node.
C26_Offsets == AsnParsed => ValuesAt(call.out, call.data, 0, TRUE)

\* An integer inside a sequence was decoded: index 3 in the content, byte 5
\* of the binary.
C26_Witness ==
    /\ AsnParsed
    /\ call.data = <<48, 3, 2, 1, 4>>
    /\ Len(call.out) = 1
    /\ Len(call.out[1].nodes) = 1
    /\ call.out[1].nodes[1].index = 3
    /\ call.out[1].nodes[1].val = <<4>>

(***************************************************************************)
(* C27: the handshake before application data.                             *)
(***************************************************************************)

\* The records of the log at which the client wrote its finished message,
\* a change-cipher-spec record was received, and a handshake record with a
\* finished message was received (a received record is in the log when
\* parse-response returned for it, so when its comparisons passed).
WroteFinished(i) ==
    /\ net.log[i].from = "client"
    /\ "<finished>" \in Range(net.log[i].data)

ReadCipherSpec(i) ==
    /\ net.log[i].from = "server"
    /\ net.log[i].data[1] = 20

ReadFinished(i) ==
    /\ net.log[i].from = "server"
    /\ net.log[i].data[1] = 22
    /\ net.log[i].data[6] = 20

\* The three happened, in that order, among the first n records of the log.
Handshaken(n) ==
    \E i, j, k \in 1..n :
        /\ i < j
        /\ j < k
        /\ WroteFinished(i)
        /\ ReadCipherSpec(j)
        /\ ReadFinished(k)

\* C27: in a session started by a connect event the mode is #application,
\* and an application record of the peer is accepted, only after the client
\* wrote its finished message, then a change-cipher-spec record was
\* received, then a finished message of the peer passed the comparison of
\* its verify data.
C27_HandshakeFirst ==
    /\ ctx.mode = "#application" => Handshaken(Len(net.log))
    /\ \A n \in 1..Len(net.log) :
          (net.log[n].from = "server" /\ net.log[n].data[1] = 23)
              => Handshaken(n - 1)

(***************************************************************************)
(* C28: the modes #alert and <close-notify>.                               *)
(***************************************************************************)

\* Records of every protocol type, and of none.
AnyRecords ==
    ServerRecords \cup
        { Record(20, << >>), Record(21, <<1, 90>>), Record(21, <<1, 0>>),
          Record(22, << >>), Record(22, <<0>>), Record(22, <<20, 1, 3>>),
          Record(22, <<99>>), Record(23, << >>), Record(23, <<3>>),
          Record(23, <<4>>), Record(25, << >>) }

\* The session as it is, were nothing to have failed.
Unfailed == [Here EXCEPT !.net.error = blank]

\* In the mode #alert parse-response fails for every record and the one
\* command do-commands runs without failing is <close-notify>; in the mode
\* <close-notify> every command fails.
AlertFinal ==
    /\ ctx.mode = "#alert" =>
          /\ \A r \in AnyRecords : failed(parse_response(Unfailed, r))
          /\ \A cmd \in Commands :
                failed(command(Unfailed, cmd)) <=> cmd # "<close-notify>"
    /\ ctx.mode = "<close-notify>" =>
          \A cmd \in Commands : failed(command(Unfailed, cmd))

\* A read event in the mode #alert returns for no fragment, and fails when
\* it comes to a whole record; a write of the application in one of the two
\* modes returns blank and writes nothing.
AlertStep28 ==
    /\ (/\ ctx.mode = "#alert"
        /\ call'.op = "awake"
        /\ call'.type = "read") =>
           /\ net'.frags = net.frags
           /\ (/\ Len(Unparsed) >= 5
               /\ Len(Unparsed) >= 5 + Unparsed[5]) => net'.error # blank
    /\ (/\ ctx.mode \in {"#alert", "<close-notify>"}
        /\ call'.op = "write") =>
           /\ call'.result = blank
           /\ ctx' = ctx
           /\ net'.sent = net.sent

\* C28: once the mode is #alert every further received record, of any
\* type, is rejected and the only write command accepted is <close-notify>;
\* while the mode is <close-notify> every write command is rejected.
C28_AlertFinal == []AlertFinal /\ [][AlertStep28]_vars

\* A read event found the session in the mode #alert and failed at the
\* record it came to.
C28_Witness ==
    /\ call.op = "awake"
    /\ call.type = "read"
    /\ call.mode = "#alert"
    /\ ctx.mode = "#alert"
    /\ net.error = "illegal state transition"
    /\ Len(net.stream) > Len(Concat(net.frags)) + Len(net.wire) + 4

(***************************************************************************)
(* TLS: the key block (prot-tls.r).                                        *)
(*                                                                         *)
(* A cipher suite is its crypt block (size, and for a block cipher block   *)
(* and iv; 0 stands for a word the block does not have) and the size of    *)
(* its hash block.  The PRF is modelled by its length: the output for a    *)
(* secret is a string of the length asked for whose bytes all differ, so   *)
(* that a byte of a key tells the place of the key block it came from.     *)
(***************************************************************************)

\* The secrets the PRF is keyed with.
MaxSecret == 15

\* A key of the session that was not set: no suite has a key of no bytes.
unset == << >>

Suite(id, crypt, size, block, iv, hash) ==
    [id |-> id, crypt |-> crypt, size |-> size, block |-> block, iv |-> iv,
     hash |-> hash]

cipher_suites ==
    { Suite("TLS_RSA_WITH_RC4_128_MD5", "rc4@", 16, 0, 0, 16),
      Suite("TLS_RSA_WITH_RC4_128_SHA", "rc4@", 16, 0, 0, 20),
      Suite("TLS_RSA_WITH_AES_128_CBC_SHA", "aes@", 16, 16, 16, 20),
      Suite("TLS_RSA_WITH_AES_256_CBC_SHA", "aes@", 32, 16, 16, 20),
      Suite("TLS_DHE_DSS_WITH_AES_128_CBC_SHA", "aes@", 16, 16, 16, 20),
      Suite("TLS_DHE_DSS_WITH_AES_256_CBC_SHA", "aes@", 32, 16, 16, 20),
      Suite("TLS_DHE_RSA_WITH_AES_128_CBC_SHA", "aes@", 16, 16, 16, 20),
      Suite("TLS_DHE_RSA_WITH_AES_256_CBC_SHA", "aes@", 32, 16, 16, 20) }

\* The accessors of the session object: the sizes selected from the suite;
\* block-size and iv-size are null (0) for a suite without the word.
hash_size(suite) == suite.hash

crypt_size(suite) == suite.size

block_size(suite) == suite.block

iv_size(suite) == suite.iv

\* prf: the first output-length bytes of the two hash streams, XORed.
prf(secret, output_length) ==
    [i \in 1..output_length |-> (secret + i) % 256]

\* A mutant of make_key_block: the IVs are not counted.
make_key_block_short(suite, secret) ==
    prf(secret, (hash_size(suite) + crypt_size(suite)) * 2)

\* make-key-block.
make_key_block(suite, secret) ==
    prf(secret,
        ((hash_size(suite) + crypt_size(suite))
         + (IF block_size(suite) # 0 THEN iv_size(suite) ELSE 0)) * 2)

\* SKIP of a series at its head: the position after n items, at most the tail.
skip(data, n) == IF n > Len(data) THEN Len(data) + 1 ELSE n + 1

\* The end of client-key-exchange: the key block is made and the keys are
\* copied from it; the IVs are left unset for a suite without a block size.
update_keys(suite, secret) ==
    LET key_block == make_key_block(suite, secret)
        hash == hash_size(suite)
        crypt == crypt_size(suite)
        block == block_size(suite)
    IN  [key_block |-> key_block,
         client_mac_key |-> copy_part(key_block, 1, hash),
         server_mac_key |-> copy_part(key_block, skip(key_block, hash), hash),
         client_crypt_key |->
             copy_part(key_block, skip(key_block, 2 * hash), crypt),
         server_crypt_key |->
             copy_part(key_block, skip(key_block, (2 * hash) + crypt), crypt),
         client_iv |->
             IF block # 0
             THEN copy_part(key_block, skip(key_block, 2 * (hash + crypt)),
                            block)
             ELSE unset,
         server_iv |->
             IF block # 0
             THEN copy_part(key_block,
                            skip(key_block, (2 * (hash + crypt)) + block),
                            block)
             ELSE unset]

\* client-key-exchange with the suite the server chose.
ClientKeyExchange ==
    /\ call.op = "client-key-exchange"
    /\ ~call.made
    /\ call' = [call EXCEPT !.made = TRUE,
                             !.keys = update_keys(call.suite, call.secret)]
    /\ UNCHANGED <<ctx, net, rt, f>>

InitKeys ==
    /\ ctx = InitCtx
    /\ \E suite \in cipher_suites, secret \in 0..MaxSecret :
          call = [op |-> "client-key-exchange", suite |-> suite,
                  secret |-> secret, made |-> FALSE, keys |-> unset]
    /\ net = InitNet
    /\ rt = InitRt
    /\ f = InitFrame

NextKeys == ClientKeyExchange

\* client-key-exchange for each suite and secret.
SpecKeys == InitKeys /\ [][NextKeys]_vars

(***************************************************************************)
(* C29                                                                     *)
(***************************************************************************)

KeysMade == call.op = "client-key-exchange" /\ call.made

\* The keys in their order: the two IVs only for a block cipher.
KeysInOrder ==
    LET k == call.keys
    IN  <<k.client_mac_key, k.server_mac_key, k.client_crypt_key,
          k.server_crypt_key>>
        \o (IF call.suite.block # 0 THEN <<k.client_iv, k.server_iv>>
            ELSE << >>)

\* C29: for each of the eight suites the key block has the length
\* 2 * (mac size + crypt size + iv size), the iv size counted only for a
\* block cipher, and the client MAC key, server MAC key, client encryption
\* key, server encryption key and, for a block cipher, client IV and server
\* IV are consecutive ranges of the key block in that order, which do not
\* overlap and together cover it: their concatenation is the key block, and
\* each has the size the suite gives it.
C29_KeyBlock ==
    KeysMade =>
        LET s == call.suite
            k == call.keys
            iv == IF s.crypt = "aes@" THEN s.iv ELSE 0
        IN  /\ Len(k.key_block) = 2 * (s.hash + s.size + iv)
            /\ Concat(KeysInOrder) = k.key_block
            /\ Len(k.client_mac_key) = s.hash
            /\ Len(k.server_mac_key) = s.hash
            /\ Len(k.client_crypt_key) = s.size
            /\ Len(k.server_crypt_key) = s.size
            /\ s.crypt = "aes@" =>
                  /\ Len(k.client_iv) = s.iv
                  /\ Len(k.server_iv) = s.iv
            /\ s.crypt # "aes@" =>
                  /\ k.client_iv = unset
                  /\ k.server_iv = unset

\* The keys of a block cipher suite with a 32-byte key were made: the
\* server IV is the last 16 bytes of a key block of 136.
C29_Witness ==
    /\ KeysMade
    /\ call.suite.id = "TLS_DHE_RSA_WITH_AES_256_CBC_SHA"
    /\ Len(call.keys.key_block) = 136
    /\ call.keys.server_iv = SubSeq(call.keys.key_block, 121, 136)
    /\ call.keys.client_mac_key[1] # call.keys.server_mac_key[1]

(***************************************************************************)
(* TLS: the padding of a block cipher (prot-tls.r).                        *)
(*                                                                         *)
(* The plaintext of a record is followed up to the cipher and from it: the *)
(* cipher itself is taken to give back what it was given.                  *)
(***************************************************************************)

\* The longest content encrypted, and the bytes it is filled with (bytes
\* that may be read as a padding count among them).
MaxContent == 34

Fills == {0, 15, 16}

\* checksum/method/key over the sequence number, type, version, length and
\* content: hash-size bytes, which depend on the content.
mac_of(suite, data) ==
    [i \in 1..hash_size(suite) |-> (Len(data) + i) % 256]

remainder(a, b) == a % b

\* A mutant of padding_of: the byte of the count is not counted.
padding_uncounted(suite, data) ==
    block_size(suite) - remainder(Len(data), block_size(suite))

\* The padding encrypt-data computes for the content and MAC.
padding_of(suite, data) ==
    block_size(suite) - remainder(1 + Len(data), block_size(suite))

\* encrypt-data up to the cipher: the content, its MAC and, in CBC mode,
\* 1 + padding bytes that each hold the padding.
encrypt_data(suite, content) ==
    LET data == content \o mac_of(suite, content)
        padding == padding_of(suite, data)
        len == 1 + padding
    IN  IF block_size(suite) # 0
        THEN data \o [i \in 1..len |-> padding]
        ELSE data

\* parse-messages from the cipher: in CBC mode the data is cut to its
\* length less one less its last byte.
depadding(suite, data) ==
    IF block_size(suite) # 0
    THEN copy_part(data, 1, (Len(data) - 1) - Last(data))
    ELSE data

\* encrypt-data of a content under a suite.
EncryptData ==
    /\ call.op = "encrypt-data"
    /\ call.pc = "content"
    /\ call' = [call EXCEPT !.pc = "sent",
                            !.data = encrypt_data(call.suite, call.content)]
    /\ UNCHANGED <<ctx, net, rt, f>>

\* parse-messages of the record at the peer.
Depadding ==
    /\ call.op = "encrypt-data"
    /\ call.pc = "sent"
    /\ call' = [call EXCEPT !.pc = "read",
                            !.read = depadding(call.suite, call.data)]
    /\ UNCHANGED <<ctx, net, rt, f>>

InitPad ==
    /\ ctx = InitCtx
    /\ \E suite \in cipher_suites, n \in 0..MaxContent, fill \in Fills :
          call = [op |-> "encrypt-data", pc |-> "content", suite |-> suite,
                  content |-> [i \in 1..n |-> fill], data |-> unset,
                  read |-> unset]
    /\ net = InitNet
    /\ rt = InitRt
    /\ f = InitFrame

NextPad ==
    \/ EncryptData
    \/ Depadding

\* A content of each length encrypted under each suite, and read back.
SpecPad == InitPad /\ [][NextPad]_vars

(***************************************************************************)
(* C30                                                                     *)
(***************************************************************************)

\* The bytes of the plaintext after the content and the MAC.
PaddingBytes ==
    SubSeq(call.data, Len(call.content) + call.suite.hash + 1, Len(call.data))

\* C30: for every content length, under a block cipher suite the plaintext
\* encrypt-data builds (content, MAC, padding) has a length that is a
\* multiple of the block size; its padding bytes all hold one count, which
\* is between 1 and the block size; and cutting (last byte + 1) bytes from
\* its end, as parse-messages does, gives the content followed by the MAC.
C30_Padding ==
    (call.op = "encrypt-data" /\ call.suite.crypt = "aes@") =>
        /\ call.pc \in {"sent", "read"} =>
              /\ Len(call.data) % call.suite.block = 0
              /\ PaddingBytes # << >>
              /\ \E count \in 1..call.suite.block :
                    \A i \in 1..Len(PaddingBytes) : PaddingBytes[i] = count
              /\ SubSeq(call.data, 1, Len(call.data) - (Last(call.data) + 1))
                    = call.content \o mac_of(call.suite, call.content)
        /\ call.pc = "read" =>
              call.read = call.content \o mac_of(call.suite, call.content)

\* A content that with its MAC and one byte more fills its blocks was
\* padded with a whole block, and read back; its own last bytes read as a
\* padding count.
C30_Witness ==
    /\ call.op = "encrypt-data"
    /\ call.pc = "read"
    /\ call.suite.crypt = "aes@"
    /\ Len(call.content) = 27
    /\ call.content[27] = 16
    /\ Len(call.data) = 64
    /\ Last(call.data) = 16
    /\ Len(call.read) = 47

(***************************************************************************)
(* The expression barrier: c-eval.c, Do_Core at ET_BAR.                    *)
(*                                                                         *)
(* An array holds BAR!s, LIT-BAR!s and inert values; the frame is at the   *)
(* 1-based place `at` of its value, Len + 1 when the value is the END.     *)
(***************************************************************************)

\* The most values of an array stepped through.
MaxArray == 5

bar == "|"

lit_bar == "'|"

void == "void"

Inert == {"10", "20"}

ET_Of(array, at) ==
    IF at > Len(array) THEN "END"
    ELSE CASE array[at] = bar -> "ET_BAR"
           [] array[at] = lit_bar -> "ET_LIT_BAR"
           [] OTHER -> "ET_INERT"

\* case ET_BAR: the next value is fetched; when it is not the END its
\* evaluation type is taken and the step goes on at do_next, else the
\* output is void, flagged as evaluated.
ET_BAR_case(c) ==
    IF c.at + 1 <= Len(c.array)
    THEN [c EXCEPT !.at = @ + 1,
                   !.eval_type = ET_Of(c.array, c.at + 1),
                   !.pc = "do_next"]
    ELSE [c EXCEPT !.at = @ + 1, !.out = void, !.evaluated = TRUE,
                   !.pc = "finished"]

ET_BAR ==
    /\ call.op = "step"
    /\ call.pc = "do_next"
    /\ call.eval_type = "ET_BAR"
    /\ call' = ET_BAR_case(call)
    /\ UNCHANGED <<ctx, net, rt, f>>

\* case ET_LIT_BAR: the output is a BAR!, flagged as evaluated.
ET_LIT_BAR ==
    /\ call.op = "step"
    /\ call.pc = "do_next"
    /\ call.eval_type = "ET_LIT_BAR"
    /\ call' = [call EXCEPT !.at = @ + 1, !.out = bar, !.evaluated = TRUE,
                            !.pc = "finished"]
    /\ UNCHANGED <<ctx, net, rt, f>>

\* case ET_INERT: the value is copied to the output, not flagged.
ET_INERT ==
    /\ call.op = "step"
    /\ call.pc = "do_next"
    /\ call.eval_type = "ET_INERT"
    /\ call' = [call EXCEPT !.at = @ + 1, !.out = call.array[call.at],
                            !.evaluated = FALSE, !.pc = "finished"]
    /\ UNCHANGED <<ctx, net, rt, f>>

\* The arrays a step is started in, at their head.
BarArrays ==
    UNION { [1..n -> {bar, lit_bar} \cup Inert] : n \in 1..MaxArray }

InitBar ==
    /\ \E array \in BarArrays :
         call = [op |-> "step", array |-> array, at |-> 1,
                 eval_type |-> ET_Of(array, 1), out |-> "END",
                 evaluated |-> FALSE, pc |-> "do_next"]
    /\ ctx = InitCtx
    /\ net = InitNet
    /\ rt = InitRt
    /\ f = InitFrame

NextBar ==
    \/ ET_BAR
    \/ ET_LIT_BAR
    \/ ET_INERT

\* One evaluation step (DO_FLAG_NEXT) of Do_Core from the head of an array.
SpecBar == InitBar /\ [][NextBar]_vars

(***************************************************************************)
(* C31                                                                     *)
(***************************************************************************)

\* The barriers at the head of the array.
RECURSIVE LeadingBars(_)
LeadingBars(array) ==
    IF array = << >> \/ Head(array) # bar THEN 0
    ELSE 1 + LeadingBars(Tail(array))

\* C31: an evaluation step that starts at an expression barrier consumes
\* that barrier and every barrier immediately following it, and nothing
\* else, and its result is void.
C31_BarrierStep ==
    (/\ call.op = "step"
     /\ call.pc = "finished"
     /\ call.array[1] = bar) =>
        /\ call.at = 1 + LeadingBars(call.array)
        /\ call.out = void

(***************************************************************************)
(* A function call in Do_Core: c-eval.c, from the entry to `finished`.     *)
(*                                                                         *)
(* call.FS is the frame stack, the top last; a frame is its evaluation     *)
(* type, whether it is a function frame still fulfilling its arguments     *)
(* (its param is not the END) and the state of its arguments.  call.DS is  *)
(* the data stack: the items found at the entry, then the refinements a    *)
(* path pushed and the functions a dispatcher pushed.  A trap scope below  *)
(* recorded the frame stack at the depth call.trap.  The frame f of the    *)
(* invocation is the one at the depth call.f, and call.top and call.dsp    *)
(* keep the frame stack top and the data stack depth as the invocation     *)
(* found them, call.under and call.fulfilling the frame it was made under. *)
(* With DO_FLAG_APPLYING the caller has pushed the frame and filled its    *)
(* arguments and dsp_orig; PUSH_CALL and DROP_CALL link and unlink the     *)
(* frame at the top.                                                       *)
(***************************************************************************)

\* The most frames below the invocation, the most items on the data stack
\* below it, and the most functions a dispatcher pushes.
MaxPrior == 2

MaxBelow == 1

MaxQueued == 2

NULL == "NULL"

Frame(eval_type, fulfilling, args) ==
    [eval_type |-> eval_type, fulfilling |-> fulfilling, args |-> args]

\* The frames an invocation is made under.
PriorFrames ==
    { Frame("ET_FUNCTION", TRUE, "pushed"),
      Frame("ET_FUNCTION", FALSE, "pushed"),
      Frame("ET_SET_WORD", FALSE, "none"),
      Frame("ET_SET_PATH", FALSE, "none"),
      Frame("ET_GROUP", FALSE, "none") }

Is_Any_Function_Frame(fr) == fr.eval_type = "ET_FUNCTION"

Is_Function_Frame_Fulfilling(fr) == fr.fulfilling

\* The values of an output cell.
END_out == [kind |-> "END"]

VOID_out == [kind |-> "void"]

Wrote == [kind |-> "value"]

Thrown(name, exit_from) ==
    [kind |-> "thrown", name |-> name, exit_from |-> exit_from]

THROWN(out) == out.kind = "thrown"

\* What a thrown exit may name: the paramlist of the function of the frame,
\* the varlist of the frame when it has one, and those of other calls.
ExitTargets == {"paramlist", "varlist", "other paramlist", "other varlist"}

\* The result of a function applied to an output.
Applied(out) == [kind |-> "applied", to |-> out]

\* A mutant of Drop_Frames: the arguments of the frames are not dropped.
Drop_Frames_Unreleased(FS, frame, dropped) ==
    [FS |-> SubSeq(FS, 1, frame),
     dropped |-> dropped \o [i \in 1..(Len(FS) - frame) |->
                                FS[Len(FS) + 1 - i]]]

\* The loop of Fail_Core over the frames from the top down to the frame of
\* the trap scope: the arguments of a function frame are dropped, and the
\* frame is dropped.  The result is the frames left and those dropped, in
\* the order they were dropped.
RECURSIVE Drop_Frames(_, _, _)
Drop_Frames(FS, frame, dropped) ==
    IF Len(FS) = frame \/ FS = << >>
    THEN [FS |-> FS, dropped |-> dropped]
    ELSE LET fr == Last(FS)
             released == IF Is_Any_Function_Frame(fr)
                         THEN [fr EXCEPT !.args = "dropped"] ELSE fr
         IN  Drop_Frames(Front(FS), frame, Append(dropped, released))

\* fail: the frames are unwound to the trap scope, which then restores the
\* data stack it recorded.
fail_call(c, error) ==
    LET u == Drop_Frames(c.FS, c.trap, << >>)
    IN  [c EXCEPT !.pc = "failed", !.error = error, !.FS = u.FS,
                  !.dropped = u.dropped]

\* Drop_Function_Args_For_Frame of the frame f.
Drop_Function_Args_For_Frame(c) == [c EXCEPT !.FS[c.f].args = "dropped"]

\* A mutant of Abort_Function_Args_For_Frame: the data stack is left.
Abort_Function_Args_Leaving(c) == Drop_Function_Args_For_Frame(c)

\* Abort_Function_Args_For_Frame: the arguments are dropped and the data
\* stack is dropped to dsp_orig.
Abort_Function_Args_For_Frame(c) ==
    [Drop_Function_Args_For_Frame(c) EXCEPT
        !.DS = SubSeq(c.DS, 1, c.dsp_orig)]

\* finished: DROP_CALL of the frame.
finished_call(c) ==
    [c EXCEPT !.pc = "returned", !.FS = Front(c.FS),
              !.dropped = <<Last(c.FS)>>]

Calling(pc) == call.op = "Do_Core" /\ call.pc = pc

Call(c) == /\ call' = c
           /\ UNCHANGED <<ctx, net, rt, f>>

\* The entry of Do_Core to a function call.  With DO_FLAG_APPLYING it goes
\* to the argument list in progress.  Else the frame is pushed, the data
\* stack depth is kept in dsp_orig, the function is found (a path may push
\* a refinement) and its arguments are pushed, pending.
Do_Core_Entry ==
    /\ Calling("invoked")
    /\ IF call.applying
       THEN Call([call EXCEPT !.pc = "arglist"])
       ELSE \E refinements \in {<< >>, <<"refinement">>} :
              Call([call EXCEPT
                      !.pc = "arglist",
                      !.FS = Append(@, Frame("ET_FUNCTION", TRUE, "pushed")),
                      !.f = Len(call.FS) + 1,
                      !.dsp_orig = Len(call.DS),
                      !.DS = @ \o refinements])

\* A mutant of Punctuator_Hit: a prior function frame is not looked at.
Punctuator_Hit_Assignments(c) ==
    /\ c.func.punctuates
    /\ c.f > 1
    /\ c.FS[c.f - 1].eval_type \in {"ET_SET_PATH", "ET_SET_WORD"}

\* The test made before the arguments are fulfilled: the function
\* punctuates and the prior frame is a function frame that is fulfilling,
\* or a SET-WORD! or SET-PATH! evaluation.
Punctuator_Hit(c) ==
    /\ c.func.punctuates
    /\ c.f > 1
    /\ LET prior == c.FS[c.f - 1]
       IN  CASE prior.eval_type = "ET_FUNCTION" ->
                  Is_Function_Frame_Fulfilling(prior)
             [] prior.eval_type \in {"ET_SET_PATH", "ET_SET_WORD"} -> TRUE
             [] OTHER -> FALSE

do_function_arglist_in_progress ==
    /\ Calling("arglist")
    /\ Call(IF Punctuator_Hit(call)
            THEN fail_call(call, "punctuator-hit")
            ELSE [call EXCEPT !.pc = "fulfill"])

\* The walk of the parameters and the pickups: the arguments are filled and
\* the refinements are dropped from the data stack; or an argument fails,
\* or its evaluation throws and the call is aborted.
Fulfill_Args ==
    /\ Calling("fulfill")
    /\ \/ Call([call EXCEPT !.pc = "execute_func",
                            !.gathered = TRUE,
                            !.FS[call.f].fulfilling = FALSE,
                            !.DS = SubSeq(@, 1, call.dsp_orig)])
       \/ Call(fail_call(call, "no-arg"))
       \/ Call(finished_call(
               [Abort_Function_Args_For_Frame(call) EXCEPT
                   !.out = Thrown("throw", NULL)]))

\* execute_func: the dispatcher writes the output, or throws, and may push
\* functions to the data stack.
execute_func ==
    /\ Calling("execute_func")
    /\ \E out \in {Wrote, Thrown("throw", NULL)}
                  \cup {Thrown("exit", t) : t \in ExitTargets},
          queued \in 0..MaxQueued :
         Call([call EXCEPT !.pc = "dispatched",
                           !.out = out,
                           !.wrote = out,
                           !.queued = queued,
                           !.DS = @ \o [i \in 1..queued |-> "function"]])

\* The catching of exits: a throw that is no exit, or an exit from another
\* paramlist and another varlist, aborts the call; an exit from the
\* paramlist of the function or from the varlist of the frame is caught.
Catch_Exit ==
    /\ Calling("dispatched")
    /\ LET from == IF call.out.exit_from = "paramlist"
                   THEN call.func.paramlist
                   ELSE IF call.out.exit_from = "varlist"
                   THEN "this varlist"
                   ELSE call.out.exit_from
       IN  IF ~THROWN(call.out) THEN Call([call EXCEPT !.pc = "completion"])
           ELSE IF call.out.name # "exit"
           THEN Call(finished_call(Abort_Function_Args_For_Frame(call)))
           ELSE IF from = call.func.paramlist
           THEN Call([call EXCEPT !.pc = "completion", !.out = Wrote,
                                  !.caught = TRUE])
           ELSE IF from = call.varlist
           THEN Call([call EXCEPT !.pc = "completion", !.out = Wrote,
                                  !.caught = TRUE])
           ELSE Call(finished_call(Abort_Function_Args_For_Frame(call)))

\* The completion of the call: the arguments are dropped, and the output of
\* a function that punctuates is set to void.
Call_Completion ==
    /\ Calling("completion")
    /\ LET c == Drop_Function_Args_For_Frame(call)
       IN  Call([c EXCEPT !.pc = "pending",
                          !.out = IF c.func.punctuates THEN VOID_out ELSE @])

\* The functions pending on the data stack: the top one is applied to the
\* output and dropped; when it throws the call is finished at once.
Apply_Pending ==
    /\ Calling("pending")
    /\ Len(call.DS) # call.dsp_orig
    /\ \/ Call([call EXCEPT !.out = Applied(call.out),
                            !.DS = Front(@)])
       \/ Call(finished_call([call EXCEPT !.out = Thrown("throw", NULL)]))

\* No function is pending: the call is over.
Do_Core_Finished ==
    /\ Calling("pending")
    /\ Len(call.DS) = call.dsp_orig
    /\ Call(finished_call(call))

InitCall ==
    /\ \E prior \in UNION {[1..n -> PriorFrames] : n \in 0..MaxPrior},
          below \in 0..MaxBelow,
          applying, punctuates \in BOOLEAN,
          varlist \in {NULL, "this varlist"} :
        \E trap \in 0..Len(prior) :
          LET FS == IF applying
                    THEN Append(prior, Frame("ET_FUNCTION", TRUE, "pushed"))
                    ELSE prior
          IN  call = [op |-> "Do_Core", pc |-> "invoked",
                      applying |-> applying,
                      func |-> [punctuates |-> punctuates,
                                paramlist |-> "this paramlist"],
                      varlist |-> varlist,
                      FS |-> FS, f |-> Len(FS), top |-> Len(FS),
                      prior |-> prior,
                      trap |-> trap,
                      DS |-> [i \in 1..below |-> "value"], dsp |-> below,
                      dsp_orig |-> below,
                      out |-> END_out, wrote |-> END_out,
                      under |-> IF prior = << >> THEN NULL
                                ELSE Last(prior).eval_type,
                      fulfilling |-> prior # << >> /\ Last(prior).fulfilling,
                      queued |-> 0,
                      gathered |-> FALSE, caught |-> FALSE,
                      error |-> NULL, dropped |-> << >>]
    /\ ctx = InitCtx
    /\ net = InitNet
    /\ rt = InitRt
    /\ f = InitFrame

NextCall ==
    \/ Do_Core_Entry
    \/ do_function_arglist_in_progress
    \/ Fulfill_Args
    \/ execute_func
    \/ Catch_Exit
    \/ Call_Completion
    \/ Apply_Pending
    \/ Do_Core_Finished

\* One invocation of Do_Core that comes to a function call.
SpecCall == InitCall /\ [][NextCall]_vars

(***************************************************************************)
(* C32                                                                     *)
(***************************************************************************)

Returned == call.op = "Do_Core" /\ call.pc = "returned"

\* The invocation was made under a function frame that was fulfilling its
\* arguments, or under a SET-WORD! or SET-PATH! evaluation.
UnderArgumentOrAssignment ==
    \/ call.under = "ET_FUNCTION" /\ call.fulfilling
    \/ call.under \in {"ET_SET_WORD", "ET_SET_PATH"}

\* A function that punctuates, invoked under an argument or an assignment,
\* fails with the punctuator-hit error before an argument is gathered.
PunctuatorRaised ==
    (/\ call.op = "Do_Core"
     /\ call.func.punctuates
     /\ UnderArgumentOrAssignment
     /\ call.pc \notin {"invoked", "arglist"}) =>
        /\ call.pc = "failed"
        /\ call.error = "punctuator-hit"
        /\ ~call.gathered

\* n functions applied in turn to an output.
RECURSIVE ApplyN(_, _)
ApplyN(out, n) == IF n = 0 THEN out ELSE Applied(ApplyN(out, n - 1))

PastCatch ==
    /\ call.op = "Do_Core"
    /\ call.pc \in {"completion", "pending", "returned"}
    /\ call.wrote # END_out

\* The dispatcher threw an exit from the paramlist of the function, or
\* from the varlist of the frame, which the frame then has.
ExitForFrame ==
    /\ THROWN(call.wrote)
    /\ call.wrote.name = "exit"
    /\ \/ call.wrote.exit_from = "paramlist"
       \/ call.wrote.exit_from = "varlist" /\ call.varlist # NULL

\* C33: when the dispatcher returns a thrown exit the frame catches it if
\* and only if the exit is from the paramlist of the function or from the
\* reified frame of the invocation; in every other case, and for every
\* thrown value that is no exit, the thrown value leaves the frame as it
\* was thrown, with the arguments of the frame dropped and the data stack
\* cut back to its depth at the entry of the frame.
C33_ExitCatching ==
    (PastCatch /\ THROWN(call.wrote)) =>
        IF ExitForFrame
        THEN call.caught /\ (call.pc # "returned" => ~THROWN(call.out))
        ELSE /\ ~call.caught
             /\ call.pc = "returned"
             /\ call.out = call.wrote
             /\ Len(call.DS) = call.dsp
             /\ call.dropped = <<Frame("ET_FUNCTION", FALSE, "dropped")>>
             /\ Len(call.FS) = call.f - 1

\* An exit from another invocation's frame left a frame that has a varlist
\* of its own, over two functions pushed by the dispatcher.
C33_Witness ==
    /\ Returned
    /\ call.wrote = Thrown("exit", "other varlist")
    /\ call.out = call.wrote
    /\ call.varlist # NULL
    /\ call.queued = 2
    /\ Len(call.DS) = call.dsp
    /\ ~call.caught

(***************************************************************************)
(* C36                                                                     *)
(***************************************************************************)

\* C36: every invocation of Do_Core that returns, with an ordinary output
\* or a thrown one, leaves the data stack at the depth it had on entry;
\* also when a function taken from the data stack to process the output
\* throws while others are still on it.
C36_StackBalanced ==
    Returned => Len(call.DS) = call.dsp

(***************************************************************************)
(* C37                                                                     *)
(***************************************************************************)

Failed == call.op = "Do_Core" /\ call.pc = "failed"

\* The frame as an unwind leaves it: the arguments of a function frame are
\* dropped.
Released(fr) ==
    IF Is_Any_Function_Frame(fr) THEN [fr EXCEPT !.args = "dropped"] ELSE fr

\* An unwind has dropped the frames from the top down to the frame of the
\* trap scope, one by one, and released the arguments of the function
\* frames: first the frame of the invocation, then the frames it was made
\* under.
Unwound ==
    /\ call.FS = SubSeq(call.prior, 1, call.trap)
    /\ Len(call.dropped) = Len(call.prior) + 1 - call.trap
    /\ Is_Any_Function_Frame(call.dropped[1])
    /\ call.dropped[1].args = "dropped"
    /\ \A i \in 2..Len(call.dropped) :
         call.dropped[i] = Released(call.prior[Len(call.prior) + 2 - i])

\* C37 as stated: every invocation of Do_Core that returns leaves the top
\* of the frame stack as it was when Do_Core was invoked, on the ordinary
\* path and with DO_FLAG_APPLYING, and an error unwinds the frames to the
\* trap scope.
C37_Original ==
    /\ Returned => Len(call.FS) = call.top
    /\ Failed => Unwound

\* C37, amended: every invocation of Do_Core that returns leaves at the top
\* of the frame stack the prior of its own frame, with the frames below as
\* they were: the top as the invocation found it on the ordinary path, where
\* Do_Core pushed the frame, and one frame below it with DO_FLAG_APPLYING,
\* where the frame was at the top already; and an error unwinds the frames
\* one by one from the top down to the frame of the trap scope, releasing
\* the arguments of the function frames.
C37_FrameStack ==
    /\ Returned =>
         /\ call.FS = call.prior
         /\ Len(call.FS) = call.f - 1
         /\ Len(call.FS) = IF call.applying THEN call.top - 1 ELSE call.top
    /\ Failed => Unwound

\* An invocation with DO_FLAG_APPLYING, made under two frames, has returned.
C37_Witness ==
    Returned /\ call.applying /\ Len(call.prior) = 2

(***************************************************************************)
(* The fulfillment of the arguments of a call that may be a lookback call. *)
(* The call record holds the frame: the parameters, the position of the    *)
(* walk, the argument slots, f->out, the flag f->lookback, the rest of the *)
(* call site in value, the words a path left on the data stack (dsp_orig   *)
(* is the empty stack), f->refine and the baseline args_evaluate.  left    *)
(* and infix keep f->out and f->lookback as the walk found them.           *)
(***************************************************************************)

\* The longest call site after the function.
MaxAfter == 2

\* A cell: its type and whether it carries VALUE_FLAG_EVALUATED.
Val(type, evaluated) == [type |-> type, evaluated |-> evaluated]

END_VAL == Val("END", FALSE)

VOID_VAL == Val("void", FALSE)

TRUE_VAL == Val("true", FALSE)

FALSE_VAL == Val("false", FALSE)

\* The outputs a lookback call may find in f->out: the END, or a value of
\* an expression or an assignment target, evaluated or not.
LeftTypes == {"integer", "word", "set-word", "set-path"}

Lefts == {END_VAL} \cup {Val(t, e) : t \in LeftTypes, e \in BOOLEAN}

\* The items of a call site: a BAR!, an integer and a GROUP!.
AfterItems == {"BAR", "1", "(g)"}

IS_QUOTABLY_SOFT(item) == item = "(g)"

\* The item taken literally.
Quoted(item) ==
    CASE item = "BAR" -> Val("bar", FALSE)
      [] item = "1" -> Val("integer", FALSE)
      [] OTHER -> Val("group", FALSE)

\* The item evaluated: an integer is inert, a group gives its result.
Evaluated(item) ==
    IF item = "1" THEN Val("integer", FALSE) ELSE Val("integer", TRUE)

\* Whether the evaluation of the item may throw.
May_Throw(item) == item = "(g)"

ArgTypes == {"integer", "word", "set-word", "set-path", "group", "bar"}

\* The parameter lists: a first argument of one of the three classes, then
\* at most one normal argument, then the refinements /r and /s.
FirstParams ==
    {Param(class, "a", types, endable) :
        class \in {"normal", "hard-quote", "soft-quote"},
        types \in {ArgTypes, ArgTypes \ {"word"}},
        endable \in BOOLEAN}

SecondParams ==
    {<< >>} \cup {<<Param("normal", "b", ArgTypes, e)>> : e \in BOOLEAN}

Refinements ==
    << Param("refinement", "r", {}, FALSE),
       Param("refinement", "s", {}, FALSE) >>

\* The words a path may leave on the data stack; zz is no refinement of the
\* function.
StackWords == {"r", "s", "zz"}

fail_arg(c, error) == [c EXCEPT !.pc = "failed", !.error = error]

continue_arg_loop(c) == [c EXCEPT !.param = @ + 1]

\* A throw while an argument is evaluated: the thrown value goes to f->out
\* and Abort_Function_Args_For_Frame drops the data stack to dsp_orig.
throw_arg(c) ==
    [c EXCEPT !.pc = "thrown", !.out = Val("thrown", FALSE), !.DS = << >>]

\* check_arg for an ordinary argument that is set: the type check.
check_arg_type(c) ==
    IF c.args[c.param].type \in c.params[c.param].types
    THEN continue_arg_loop(c)
    ELSE fail_arg(c, "Arg_Type")

\* QUOTE_NEXT_REFETCH into f->arg.
QUOTE_NEXT_REFETCH(c) ==
    [c EXCEPT !.args[c.param] = Quoted(Head(c.value)), !.value = Tail(@)]

\* The evaluation of the next item into f->arg; the set of the outcomes.
EVAL_NEXT(c) ==
    {check_arg_type([c EXCEPT !.args[c.param] = Evaluated(Head(c.value)),
                              !.value = Tail(@)])}
    \cup IF May_Throw(Head(c.value)) THEN {throw_arg(c)} ELSE {}

\* The slot of a lookback argument: with the END in f->out a parameter
\* that is not <end>able fails, and for an <end>able one f->out is set to
\* void; a quoting parameter fails on an evaluated output, and a soft
\* quoting one on a SET-WORD! or SET-PATH!; else the output is moved to
\* the slot.
lookback_arg(c, quoting, soft) ==
    LET d == [c EXCEPT !.lookback = FALSE]
    IN  IF c.out = END_VAL
        THEN IF ~c.params[c.param].endable
             THEN fail_arg(d, "No_Arg")
             ELSE continue_arg_loop([d EXCEPT !.out = VOID_VAL])
        ELSE IF quoting /\ c.out.evaluated
        THEN fail_arg(d, "Lookback_Quote_Too_Late")
        ELSE IF soft /\ c.out.type \in {"set-word", "set-path"}
        THEN fail_arg(d, "Lookback_Quote_Set_Soft")
        ELSE check_arg_type([d EXCEPT !.args[c.param] = c.out,
                                      !.out = END_VAL])

\* The three classes of argument that consume; the set of the outcomes.
normal_arg(c) ==
    IF c.lookback THEN {lookback_arg(c, FALSE, FALSE)}
    ELSE IF c.args_evaluate THEN EVAL_NEXT(c)
    ELSE {check_arg_type(QUOTE_NEXT_REFETCH(c))}

hard_quote_arg(c) ==
    IF c.lookback THEN {lookback_arg(c, TRUE, FALSE)}
    ELSE {check_arg_type(QUOTE_NEXT_REFETCH(c))}

soft_quote_arg(c) ==
    IF c.lookback THEN {lookback_arg(c, TRUE, TRUE)}
    ELSE IF c.args_evaluate /\ IS_QUOTABLY_SOFT(Head(c.value))
    THEN EVAL_NEXT(c)
    ELSE {check_arg_type(QUOTE_NEXT_REFETCH(c))}

\* The slot of a parameter that is no refinement, up to the consumption:
\* the argument of a refinement left for later is passed over, that of an
\* unused refinement is void; at the END of the call site, and at a BAR!
\* when arguments are evaluated, an <end>able parameter gets void and any
\* other fails; else the argument consumes by its class.
arg_slot(c) ==
    LET p == c.params[c.param]
        absent == IF p.endable
                  THEN continue_arg_loop(
                           [c EXCEPT !.args[c.param] = VOID_VAL])
                  ELSE fail_arg(c, IF c.value = << >> THEN "No_Arg"
                                   ELSE "Expression_Barrier")
    IN  IF c.refine.kind = "VOID" THEN {continue_arg_loop(c)}
        ELSE IF c.refine.kind = "BLANK"
        THEN {continue_arg_loop([c EXCEPT !.args[c.param] = VOID_VAL])}
        ELSE IF c.value = << >> THEN {absent}
        ELSE IF c.args_evaluate /\ Head(c.value) = "BAR" THEN {absent}
        ELSE CASE p.class = "normal" -> normal_arg(c)
               [] p.class = "hard-quote" -> hard_quote_arg(c)
               [] OTHER -> soft_quote_arg(c)

\* The slot of a refinement that is not specialized.
refinement_slot(c) ==
    LET sym == c.params[c.param].sym
        n == Len(c.DS)
        below == {i \in 1..(n - 1) : c.DS[i].sym = sym}
        found == CHOOSE i \in below : \A j \in below : j <= i
        unused == continue_arg_loop([c EXCEPT !.args[c.param] = FALSE_VAL,
                                              !.refine = BLANK_VALUE])
    IN  IF c.doing_pickups THEN [c EXCEPT !.param = Len(c.params) + 1]
        ELSE IF n = 0 THEN unused
        ELSE IF c.DS[n].sym = sym
        THEN continue_arg_loop([c EXCEPT !.DS = Front(@),
                                         !.args[c.param] = TRUE_VAL,
                                         !.refine = Slot(c.param)])
        ELSE IF below # {}
        THEN continue_arg_loop([c EXCEPT !.DS[found].pickup = c.param,
                                         !.args[c.param] = TRUE_VAL,
                                         !.refine = VOID_CELL])
        ELSE unused

\* After the loop with words left on the data stack.
pickup_arg(c) ==
    LET top == Last(c.DS)
    IN  IF top.pickup = 0 THEN fail_arg(c, "Bad_Refine")
        ELSE continue_arg_loop([c EXCEPT !.param = top.pickup,
                                         !.refine = Slot(top.pickup),
                                         !.DS = Front(@),
                                         !.doing_pickups = TRUE])

Walking == call.op = "Fulfill" /\ call.pc = "args"

AtParam == Walking /\ call.param <= Len(call.params)

Walk(c) == /\ call' = c
           /\ UNCHANGED <<ctx, net, rt, f>>

Walk_Refinement ==
    /\ AtParam
    /\ call.params[call.param].class = "refinement"
    /\ Walk(refinement_slot(call))

Walk_Normal ==
    /\ AtParam
    /\ call.params[call.param].class = "normal"
    /\ \E c \in arg_slot(call) : Walk(c)

Walk_Hard_Quote ==
    /\ AtParam
    /\ call.params[call.param].class = "hard-quote"
    /\ \E c \in arg_slot(call) : Walk(c)

Walk_Soft_Quote ==
    /\ AtParam
    /\ call.params[call.param].class = "soft-quote"
    /\ \E c \in arg_slot(call) : Walk(c)

Walk_Pickup ==
    /\ Walking
    /\ call.param > Len(call.params)
    /\ call.DS # << >>
    /\ Walk(pickup_arg(call))

\* The arguments are gathered: the call is dispatched.
Walk_Dispatch ==
    /\ Walking
    /\ call.param > Len(call.params)
    /\ call.DS = << >>
    /\ Walk([call EXCEPT !.pc = "dispatch"])

\* The frame when the walk begins.  A call that is no lookback call has
\* the END in f->out; a lookback call has the END, the target of an
\* assignment in progress or the output of the expression before it.
InitWalk ==
    /\ \E first \in FirstParams, second \in SecondParams,
          lookback, args_evaluate \in BOOLEAN,
          value \in UNION {[1..n -> AfterItems] : n \in 0..MaxAfter},
          path \in {p \in Paths(StackWords) : Len(p) <= 2} :
        \E left \in IF lookback THEN Lefts ELSE {END_VAL} :
          LET params == <<first>> \o second \o Refinements
          IN  call = [op |-> "Fulfill", pc |-> "args",
                      params |-> params, param |-> 1,
                      args |-> [i \in 1..Len(params) |-> END_VAL],
                      out |-> left, left |-> left,
                      lookback |-> lookback, infix |-> lookback,
                      value |-> value, args_evaluate |-> args_evaluate,
                      DS |-> [i \in 1..Len(path) |->
                                [sym |-> path[Len(path) + 1 - i],
                                 pickup |-> 0]],
                      refine |-> BAR_VALUE, doing_pickups |-> FALSE,
                      error |-> NULL]
    /\ ctx = InitCtx
    /\ net = InitNet
    /\ rt = InitRt
    /\ f = InitFrame

NextWalk ==
    \/ Walk_Refinement
    \/ Walk_Normal
    \/ Walk_Hard_Quote
    \/ Walk_Soft_Quote
    \/ Walk_Pickup
    \/ Walk_Dispatch

\* The walk of the parameters of one call.
SpecWalk == InitWalk /\ [][NextWalk]_vars

(***************************************************************************)
(* C34                                                                     *)
(***************************************************************************)

\* The first slot of a lookback call has been walked.
LookbackWalked ==
    /\ call.op = "Fulfill"
    /\ call.infix
    /\ call.param > 1 \/ call.pc # "args"

\* C34: when the first argument of a lookback call quotes, hard or soft,
\* and the output before it carries the evaluated flag, the fulfillment
\* raises an error; when it quotes softly and the output is an unevaluated
\* SET-WORD! or SET-PATH! it raises an error; a normal first argument takes
\* the output, evaluated or not.
C34_LookbackQuote ==
    LookbackWalked /\ call.left # END_VAL =>
      LET class == call.params[1].class
      IN  /\ class \in {"hard-quote", "soft-quote"} /\ call.left.evaluated
             => call.pc = "failed"
          /\ class = "soft-quote"
             /\ call.left.type \in {"set-word", "set-path"}
             => call.pc = "failed"
          /\ class = "normal" => call.args[1] = call.left

(***************************************************************************)
(* C35                                                                     *)
(***************************************************************************)

\* C35: when the dispatcher is invoked the data stack is at its depth of
\* the entry and every argument slot is filled, none is left as the END;
\* in a lookback call with no output before it whose first parameter is
\* <end>able the first slot holds void.
C35_Gathered ==
    call.op = "Fulfill" /\ call.pc = "dispatch" =>
      /\ call.DS = << >>
      /\ \A i \in 1..Len(call.args) : call.args[i] # END_VAL
      /\ call.infix /\ call.left = END_VAL /\ call.params[1].endable
         => call.args[1] = VOID_VAL

(***************************************************************************)
(* APPEND_BYTES_LIMIT.  size_t is an unsigned type: its arithmetic is done *)
(* modulo 2^SizeBits, and the int 0 it is compared with is converted to    *)
(* it.  A string is the sequence of its bytes before the terminator.       *)
(***************************************************************************)

\* The width of size_t in the model, and the longest destination and
\* source strings.
SizeBits == 4

MaxDest == 5

MaxSrc == 5

SizeRange == 2 ^ SizeBits

\* The difference of two size_t values.
size_sub(a, b) == (a - b + SizeRange) % SizeRange

\* MAX(a,b): (((a) > (b)) ? (a) : (b)) on two size_t values.
MAX(a, b) == IF a > b THEN a ELSE b

LEN_BYTES(str) == Len(str)

\* strncat: at most n bytes of src are appended to dest.
strncat(dest, src, n) == dest \o SubSeq(src, 1, Min(n, Len(src)))

APPEND_BYTES_LIMIT(dest, src, max) ==
    LET len == LEN_BYTES(dest)
    IN  strncat(dest, src, MAX(size_sub(size_sub(max, len), 1), 0))

Append_Bytes_Limit ==
    /\ call.op = "APPEND_BYTES_LIMIT"
    /\ ~call.done
    /\ call' = [call EXCEPT
                  !.done = TRUE,
                  !.result = APPEND_BYTES_LIMIT(call.dest, call.src,
                                                call.max)]
    /\ UNCHANGED <<ctx, net, rt, f>>

InitAppend ==
    /\ \E dlen \in 0..MaxDest, slen \in 0..MaxSrc,
          max \in 0..(SizeRange - 1) :
         call = [op |-> "APPEND_BYTES_LIMIT", done |-> FALSE,
                 dest |-> [i \in 1..dlen |-> "d"],
                 src |-> [i \in 1..slen |-> "s"],
                 max |-> max, result |-> << >>]
    /\ ctx = InitCtx
    /\ net = InitNet
    /\ rt = InitRt
    /\ f = InitFrame

NextAppend == Append_Bytes_Limit

\* One call of APPEND_BYTES_LIMIT.
SpecAppend == InitAppend /\ [][NextAppend]_vars

(***************************************************************************)
(* C38                                                                     *)
(***************************************************************************)

\* C38: for every length len of the destination and every limit max,
\* APPEND_BYTES_LIMIT appends at most max - len - 1 bytes when
\* len + 1 <= max and no byte when len + 1 > max, so that the destination
\* never grows beyond max - 1 bytes.
C38_AppendLimit ==
    call.op = "APPEND_BYTES_LIMIT" /\ call.done =>
      LET len == Len(call.dest)
          appended == Len(call.result) - len
      IN  /\ SubSeq(call.result, 1, len) = call.dest
          /\ len + 1 <= call.max => appended <= call.max - len - 1
          /\ len + 1 > call.max => appended = 0

=============================================================================
